---- MODULE Spec2Model ----
(***************************************************************************)
(* AQI estimation, multi-source reconciliation, forecasting and            *)
(* personalized health risk of airwatch-pro.                               *)
(*                                                                         *)
(* The services are stateless: every operation is a call that takes its    *)
(* arguments and returns a value.  A call is modelled as one action that   *)
(* records the arguments and the returned value; Return models the end of  *)
(* the request.  Python floats are modelled in fixed point; every scale is *)
(* named.  Python None is the integer None (-1) for numbers and the string *)
(* Absent for strings: neither is a value the code can compute.            *)
(***************************************************************************)
EXTENDS Integers, Sequences, FiniteSets, TLC

VARIABLES
    pc,                 \* the operation whose result the state holds, or "idle"
    ground_data,        \* _integrate_data_sources: argument ground_data
    weather_data,       \* _integrate_data_sources: argument weather_data
    satellite_data,     \* _integrate_data_sources: argument satellite_data
    integration_result, \* _integrate_data_sources: returned dict
    pollutant,          \* calculate_aqi: argument pollutant
    concentration,      \* calculate_aqi: argument concentration (ticks)
    aqi,                \* calculate_aqi: returned value
    pollutant_data,     \* convert_to_air_quality_reading: readings by parameter
    reading,            \* convert_to_air_quality_reading: returned reading
    measurements,       \* _estimate_aqi_from_measurements: argument
    estimated_aqi,      \* _estimate_aqi_from_measurements: returned value
    weather_input,      \* _calculate_air_quality_modifiers: argument weather_data
    modifiers,          \* _calculate_air_quality_modifiers: returned dict
    model_type,         \* generate_comprehensive_forecast: argument model_type
    baseline_data,      \* forecast strategies: argument baseline_data
    forecast_request,   \* forecast strategies: latitude, hours_ahead, the clock
    forecast_data,      \* forecast strategies: returned list of points
    unrounded_aqi,      \* forecast strategies: predicted_aqi of each hour, unrounded
    conditions,         \* _get_primary_health_condition: argument conditions
    primary_condition,  \* _get_primary_health_condition: returned condition
    risk_base_aqi,      \* _calculate_personalized_risk: argument base_aqi (tenths)
    health_profile,     \* _calculate_personalized_risk: argument
    air_data,           \* _calculate_personalized_risk: argument
    personalized_risk,  \* _calculate_personalized_risk: risk level, adjusted AQI
    at_risk,            \* _get_at_risk_conditions: returned list
    hour_forecast,      \* alert generators: argument forecast_data
    forecast_result,    \* generate_personalized_alerts: the forecast service's dict
    alert_result,       \* alert generators: returned alerts
    manager_method,     \* ServiceManager: the method being run, or Absent
    manager_pc,         \* ServiceManager: where the method's coroutine stands
    service_index,      \* ServiceManager: position of the loop over self.services
    client,             \* BaseService.client of each service
    task,               \* ServiceManager: the task created for each service
    request_log,        \* every client.request call: who made it, on what client
    rate_limit,         \* OpenAQService.rate_limit
    request_count,      \* OpenAQService.request_count
    rate_limit_window_start, \* OpenAQService.rate_limit_window_start
    last_request_time,  \* OpenAQService.last_request_time
    limiter_now,        \* datetime.utcnow() as OpenAQService reads it
    coroutine,          \* _rate_limit: position and locals of each caller
    passed,             \* _rate_limit: calls completed since the window was reset
    limiter_calls,      \* _rate_limit: calls started so far
    limiter_steps,      \* how many times the clock of the limiter has moved on
    cache,              \* PerformanceOptimizer._cache, in insertion order
    cache_now,          \* datetime.now() as PerformanceOptimizer reads it
    cache_call,         \* PerformanceOptimizer: the last call and what it returned
    cache_touches       \* PerformanceOptimizer: calls so far that were not for a new place

call_vars == <<pc, ground_data, weather_data, satellite_data, integration_result,
               pollutant, concentration, aqi, pollutant_data, reading,
               measurements, estimated_aqi, weather_input, modifiers,
               model_type, baseline_data, forecast_request, forecast_data,
               unrounded_aqi,
               conditions, primary_condition, risk_base_aqi, health_profile,
               air_data, personalized_risk, at_risk, hour_forecast,
               forecast_result, alert_result>>

health_vars == <<conditions, primary_condition, risk_base_aqi, health_profile,
                 air_data, personalized_risk>>

forecast_vars == <<model_type, baseline_data, forecast_request, forecast_data,
                   unrounded_aqi>>

alert_vars == <<at_risk, hour_forecast, forecast_result, alert_result>>

manager_vars == <<manager_method, manager_pc, service_index, client, task,
                  request_log>>

limiter_vars == <<rate_limit, request_count, rate_limit_window_start,
                  last_request_time, limiter_now, coroutine, passed,
                  limiter_calls, limiter_steps>>

cache_vars == <<cache, cache_now, cache_call, cache_touches>>

\* the state of the long-lived objects: service_manager, an OpenAQService,
\* performance_optimizer
component_vars == <<manager_vars, limiter_vars, cache_vars>>

vars == <<call_vars, component_vars>>

None == -1
Absent == "absent"

Abs(x) == IF x < 0 THEN -x ELSE x

Max(a, b) == IF a >= b THEN a ELSE b

(***************************************************************************)
(* WeatherService._calculate_air_quality_modifiers                         *)
(*                                                                         *)
(* wind speed in tenths of m/s, humidity in %, pressure in hPa,            *)
(* precipitation in hundredths of mm/h.  The ten factor constants are all  *)
(* multiples of 0.05 and are stored in twentieths (FactorScale); the       *)
(* product of the four factors is in units of 1/ModScale.  A key missing   *)
(* from the dict (None) takes the default of the .get call.                *)
(***************************************************************************)
FactorScale == 20
ModScale == FactorScale * FactorScale * FactorScale * FactorScale

Get(v, default) == IF v = None THEN default ELSE v

DispersionFactor(wind_speed) ==
    IF wind_speed > 100 THEN 14
    ELSE IF wind_speed > 50 THEN 17
    ELSE IF wind_speed > 20 THEN 20
    ELSE 26

\* the inversion band taken on pressure alone
PressureFactor_no_wind(pressure, wind_speed) ==
    IF pressure > 1020 THEN 25
    ELSE IF pressure < 1000 THEN 18
    ELSE 20

PressureFactor(pressure, wind_speed) ==
    IF pressure > 1020 /\ wind_speed < 30 THEN 25
    ELSE IF pressure < 1000 THEN 18
    ELSE 20

HumidityFactor(humidity) ==
    IF humidity > 80 THEN 23
    ELSE IF humidity < 30 THEN 19
    ELSE 20

PrecipitationFactor(precipitation) ==
    IF precipitation > 100 THEN 12
    ELSE IF precipitation > 10 THEN 16
    ELSE 20

calculate_air_quality_modifiers(w) ==
    LET wind_speed == Get(w.wind_speed, 0)
        humidity == Get(w.humidity, 50)
        pressure == Get(w.pressure, 1013)
        precipitation == Get(w.rain, 0) + Get(w.snow, 0)
        dispersion_factor == DispersionFactor(wind_speed)
        pressure_factor == PressureFactor(pressure, wind_speed)
        humidity_factor == HumidityFactor(humidity)
        precipitation_factor == PrecipitationFactor(precipitation)
    IN  [aqi_modifier |-> dispersion_factor * pressure_factor
                            * humidity_factor * precipitation_factor,
         dispersion_factor |-> dispersion_factor,
         pressure_factor |-> pressure_factor,
         humidity_factor |-> humidity_factor,
         precipitation_factor |-> precipitation_factor]

(***************************************************************************)
(* EnhancedAirQualityService: the multi-source reconciler.                 *)
(*                                                                         *)
(* The AQI values given by the sources are whole AQI units; the AQI values *)
(* of the result are fixed point with ModScale ticks per AQI unit, so that *)
(* base_aqi * weather_modifier is exact.  An optional dict argument is a   *)
(* record with a present flag.                                             *)
(***************************************************************************)
Truthy(x) == x # None /\ x # 0

AqiTicks(a) == a * ModScale

get_aqi_level(a) ==
    IF a <= AqiTicks(50) THEN "Good"
    ELSE IF a <= AqiTicks(100) THEN "Moderate"
    ELSE IF a <= AqiTicks(150) THEN "Unhealthy for Sensitive Groups"
    ELSE IF a <= AqiTicks(200) THEN "Unhealthy"
    ELSE IF a <= AqiTicks(300) THEN "Very Unhealthy"
    ELSE "Hazardous"

get_health_recommendations(a) ==
    IF a <= AqiTicks(50) THEN "Air quality is satisfactory for most people"
    ELSE IF a <= AqiTicks(100)
        THEN "Unusually sensitive people should consider limiting prolonged outdoor exertion"
    ELSE IF a <= AqiTicks(150) THEN "Sensitive groups should limit prolonged outdoor exertion"
    ELSE IF a <= AqiTicks(200) THEN "Everyone should limit prolonged outdoor exertion"
    ELSE IF a <= AqiTicks(300) THEN "Everyone should avoid prolonged outdoor exertion"
    ELSE "Everyone should avoid any outdoor exertion"

\* _get_weather_enhanced_data: the weather_data dict built from the current
\* weather, whose modifier comes from _calculate_air_quality_modifiers.
WeatherEnhancedData(w) ==
    LET m == calculate_air_quality_modifiers(w).aqi_modifier
    IN  [present |-> TRUE,
         concentration_modifier |-> m,
         impact_assessment |->
            IF m * 10 > 11 * ModScale THEN "Weather worsening air quality"
            ELSE IF m * 10 < 9 * ModScale THEN "Weather improving air quality"
            ELSE "Weather neutral for air quality"]

NoGround == [present |-> FALSE, total_stations |-> 0, average_aqi |-> None]
NoWeather == [present |-> FALSE, concentration_modifier |-> None,
              impact_assessment |-> Absent]
NoSatellite == [present |-> FALSE, aqi_estimate |-> None, data_quality |-> Absent]

GroundConfidence(g) == IF g.total_stations > 3 THEN "high" ELSE "moderate"

\* the band edges taken inclusive
AgreementLevel_inclusive(difference) ==
    IF difference <= AqiTicks(20) THEN "good"
    ELSE IF difference <= AqiTicks(40) THEN "moderate"
    ELSE "poor"

AgreementLevel(difference) ==
    IF difference < AqiTicks(20) THEN "good"
    ELSE IF difference < AqiTicks(40) THEN "moderate"
    ELSE "poor"

ValidationStatus(agreement) ==
    IF agreement \in {"good", "moderate"} THEN "validated" ELSE "inconsistent"

\* three stations already count as many
GroundScore_three_stations(g) == IF g.total_stations >= 3 THEN 80 ELSE 60

\* confidence scores in hundredths
GroundScore(g) == IF g.total_stations > 3 THEN 80 ELSE 60

ConfidenceScores(g, w, s) ==
    (IF g.present THEN <<GroundScore(g)>> ELSE <<>>)
    \o (IF w.present THEN <<90>> ELSE <<>>)
    \o (IF s.present THEN <<70>> ELSE <<>>)

RECURSIVE Sum(_)
Sum(q) == IF q = <<>> THEN 0 ELSE Head(q) + Sum(Tail(q))

\* "high" if mean > 0.75 else "moderate" if mean > 0.5 else "low"; the
\* comparison sum/len > t is made as sum > t * len.  No score: mean 0.3.
OverallConfidence(scores) ==
    LET n == Len(scores)
        total == IF n > 0 THEN Sum(scores) ELSE 30
        d == IF n > 0 THEN n ELSE 1
    IN  IF total > 75 * d THEN "high"
        ELSE IF total > 50 * d THEN "moderate"
        ELSE "low"

\* a source without estimate yields a default AQI instead of None
FinalAqi_default(weather_adjusted_aqi, base_aqi, s) ==
    IF Truthy(weather_adjusted_aqi) THEN weather_adjusted_aqi
    ELSE IF Truthy(base_aqi) THEN base_aqi
    ELSE IF s.present /\ Truthy(s.aqi_estimate) THEN AqiTicks(s.aqi_estimate)
    ELSE IF s.present THEN AqiTicks(50)
    ELSE None

\* "Final integrated AQI": the first of weather-adjusted, base, satellite
FinalAqi(weather_adjusted_aqi, base_aqi, s) ==
    IF Truthy(weather_adjusted_aqi) THEN weather_adjusted_aqi
    ELSE IF Truthy(base_aqi) THEN base_aqi
    ELSE IF s.present /\ Truthy(s.aqi_estimate) THEN AqiTicks(s.aqi_estimate)
    ELSE None

ActivityAdvice(m) ==
    IF m * 10 > 12 * ModScale
        THEN "Limit outdoor activities, especially for sensitive groups"
    ELSE IF m * 10 < 9 * ModScale THEN "Good conditions for outdoor activities"
    ELSE "Normal outdoor activities with air quality monitoring"

\* the comparison is made whatever the ground side is
HasAgreement_satellite_only(satellite_aqi, weather_adjusted_aqi) ==
    Truthy(satellite_aqi)

\* "Compare satellite vs ground (if both available)": if satellite_aqi, then
\* if weather_adjusted_aqi (the local, which is base_aqi without weather)
HasAgreement(satellite_aqi, weather_adjusted_aqi) ==
    Truthy(satellite_aqi) /\ Truthy(weather_adjusted_aqi)

integrate_data_sources(g, w, s) ==
    LET has_base == g.present /\ Truthy(g.average_aqi)
        base_aqi == IF has_base THEN AqiTicks(g.average_aqi) ELSE None
        has_weather == w.present /\ Truthy(base_aqi)
        weather_adjusted_aqi ==
            IF has_weather THEN g.average_aqi * w.concentration_modifier
            ELSE base_aqi
        has_satellite == s.present /\ Truthy(s.aqi_estimate)
        satellite_aqi == IF has_satellite THEN AqiTicks(s.aqi_estimate) ELSE None
        has_agreement == HasAgreement(satellite_aqi, weather_adjusted_aqi)
        difference == Abs(satellite_aqi - weather_adjusted_aqi)
        final_aqi == FinalAqi(weather_adjusted_aqi, base_aqi, s)
    IN  [data_availability |->
            [ground_stations |-> g.present,
             weather_data |-> w.present,
             satellite_data |-> s.present],
         base_aqi |-> base_aqi,
         weather_adjusted_aqi |-> IF has_weather THEN weather_adjusted_aqi ELSE None,
         weather_modifier |-> IF has_weather THEN w.concentration_modifier ELSE None,
         weather_interpretation |-> IF has_weather THEN w.impact_assessment ELSE Absent,
         satellite_aqi |-> IF has_satellite THEN satellite_aqi ELSE None,
         agreement_level |-> IF has_agreement THEN AgreementLevel(difference) ELSE Absent,
         difference |-> IF has_agreement THEN difference ELSE None,
         validation_status |->
            IF has_agreement THEN ValidationStatus(AgreementLevel(difference))
            ELSE Absent,
         final_aqi |-> IF Truthy(final_aqi) THEN final_aqi ELSE None,
         aqi_level |-> IF Truthy(final_aqi) THEN get_aqi_level(final_aqi) ELSE Absent,
         health_advice |->
            IF Truthy(final_aqi) THEN get_health_recommendations(final_aqi) ELSE Absent,
         activities |->
            IF Truthy(final_aqi) /\ w.present
                THEN ActivityAdvice(w.concentration_modifier)
            ELSE Absent,
         confidence_ground |-> IF has_base THEN GroundConfidence(g) ELSE Absent,
         confidence_weather |-> IF has_weather THEN "high" ELSE Absent,
         confidence_satellite |-> IF s.present THEN s.data_quality ELSE Absent,
         confidence_overall |-> OverallConfidence(ConfidenceScores(g, w, s))]

NoResult ==
    [data_availability |->
        [ground_stations |-> FALSE, weather_data |-> FALSE, satellite_data |-> FALSE],
     base_aqi |-> None, weather_adjusted_aqi |-> None, weather_modifier |-> None,
     weather_interpretation |-> Absent, satellite_aqi |-> None,
     agreement_level |-> Absent, difference |-> None, validation_status |-> Absent,
     final_aqi |-> None, aqi_level |-> Absent, health_advice |-> Absent,
     activities |-> Absent, confidence_ground |-> Absent,
     confidence_weather |-> Absent, confidence_satellite |-> Absent,
     confidence_overall |-> Absent]

(***************************************************************************)
(* EPAAirNowService.calculate_aqi (backend_backup)                         *)
(*                                                                         *)
(* Concentrations are fixed point: a tick is one tenth of the precision of *)
(* the pollutant's breakpoint table (pm25 and co: 0.01, o3: 0.0001, pm10,  *)
(* no2 and so2: 0.1), so that the values between two consecutive rows of   *)
(* the table exist.  Each row is <<bp_low, bp_high, aqi_low, aqi_high>>.   *)
(***************************************************************************)
aqi_breakpoints ==
    [pm25 |-> << <<0, 1200, 0, 50>>, <<1210, 3540, 51, 100>>,
                 <<3550, 5540, 101, 150>>, <<5550, 15040, 151, 200>>,
                 <<15050, 25040, 201, 300>>, <<25050, 50040, 301, 500>> >>,
     pm10 |-> << <<0, 540, 0, 50>>, <<550, 1540, 51, 100>>,
                 <<1550, 2540, 101, 150>>, <<2550, 3540, 151, 200>>,
                 <<3550, 4240, 201, 300>>, <<4250, 6040, 301, 500>> >>,
     o3 |->   << <<0, 540, 0, 50>>, <<550, 700, 51, 100>>,
                 <<710, 850, 101, 150>>, <<860, 1050, 151, 200>>,
                 <<1060, 2000, 201, 300>> >>,
     no2 |->  << <<0, 530, 0, 50>>, <<540, 1000, 51, 100>>,
                 <<1010, 3600, 101, 150>>, <<3610, 6490, 151, 200>>,
                 <<6500, 12490, 201, 300>>, <<12500, 20490, 301, 500>> >>,
     so2 |->  << <<0, 350, 0, 50>>, <<360, 750, 51, 100>>,
                 <<760, 1850, 101, 150>>, <<1860, 3040, 151, 200>>,
                 <<3050, 6040, 201, 300>>, <<6050, 10040, 301, 500>> >>,
     co |->   << <<0, 440, 0, 50>>, <<450, 940, 51, 100>>,
                 <<950, 1240, 101, 150>>, <<1250, 1540, 151, 200>>,
                 <<1550, 3040, 201, 300>>, <<3050, 5040, 301, 500>> >>]

\* str.lower() on the identifiers the model uses
Lower(s) ==
    CASE s = "PM25" -> "pm25"
      [] s = "PM10" -> "pm10"
      [] s = "O3" -> "o3"
      [] OTHER -> s

\* Python 3 round(): the nearest integer, ties to the even one; n >= 0, d > 0
Round(n, d) ==
    LET q == n \div d
        r == n % d
    IN  IF 2 * r < d THEN q
        ELSE IF 2 * r > d THEN q + 1
        ELSE IF q % 2 = 0 THEN q
        ELSE q + 1

Interpolate(row, c) ==
    Round((row[4] - row[3]) * (c - row[1]) + row[3] * (row[2] - row[1]),
          row[2] - row[1])

\* the upper edge of a row taken exclusive
RECURSIVE ScanBreakpoints_exclusive(_, _, _)
ScanBreakpoints_exclusive(breakpoints, i, c) ==
    IF i > Len(breakpoints)
        THEN IF c > breakpoints[Len(breakpoints)][2] THEN 500 ELSE 0
    ELSE IF breakpoints[i][1] <= c /\ c < breakpoints[i][2]
        THEN Interpolate(breakpoints[i], c)
    ELSE ScanBreakpoints_exclusive(breakpoints, i + 1, c)

\* no ceiling above the last row
RECURSIVE ScanBreakpoints_no_ceiling(_, _, _)
ScanBreakpoints_no_ceiling(breakpoints, i, c) ==
    IF i > Len(breakpoints) THEN 0
    ELSE IF breakpoints[i][1] <= c /\ c <= breakpoints[i][2]
        THEN Interpolate(breakpoints[i], c)
    ELSE ScanBreakpoints_no_ceiling(breakpoints, i + 1, c)

RECURSIVE ScanBreakpoints(_, _, _)
ScanBreakpoints(breakpoints, i, c) ==
    IF i > Len(breakpoints)
        THEN IF c > breakpoints[Len(breakpoints)][2] THEN 500 ELSE 0
    ELSE IF breakpoints[i][1] <= c /\ c <= breakpoints[i][2]
        THEN Interpolate(breakpoints[i], c)
    ELSE ScanBreakpoints(breakpoints, i + 1, c)

calculate_aqi(p, c) ==
    IF Lower(p) \notin DOMAIN aqi_breakpoints THEN 0
    ELSE ScanBreakpoints(aqi_breakpoints[Lower(p)], 1, c)

(***************************************************************************)
(* OpenAQService (backend_backup): composite AQI of a Pollutants object.   *)
(* Concentrations in tenths; int() truncates, the values are not negative. *)
(***************************************************************************)
pm25_to_aqi(pm25) ==
    IF pm25 <= 120 THEN (pm25 * 50) \div 120
    ELSE IF pm25 <= 354 THEN 50 + ((pm25 - 120) * 50) \div 234
    ELSE IF pm25 <= 554 THEN 100 + ((pm25 - 354) * 50) \div 200
    ELSE IF pm25 <= 1504 THEN 150 + ((pm25 - 554) * 50) \div 950
    ELSE IF pm25 <= 2504 THEN 200 + ((pm25 - 1504) * 100) \div 1000
    ELSE 300

pm10_to_aqi(pm10) ==
    IF pm10 <= 540 THEN (pm10 * 50) \div 540
    ELSE IF pm10 <= 1540 THEN 50 + ((pm10 - 540) * 50) \div 1000
    ELSE IF pm10 <= 2540 THEN 100 + ((pm10 - 1540) * 50) \div 1000
    ELSE IF pm10 <= 3540 THEN 150 + ((pm10 - 2540) * 50) \div 1000
    ELSE 200

\* the argument is o3 in tenths of ug/m3; ozone_ppm = o3 / 1960, so the
\* band edges 0.054, 0.070, 0.085, 0.105 ppm are 105.84, 137.2, 166.6, 205.8
ozone_to_aqi(o3) ==
    IF 10 * o3 <= 10584 THEN (o3 * 500) \div 10584
    ELSE IF o3 <= 1372 THEN 50 + ((10 * o3 - 10584) * 50) \div 3136
    ELSE IF o3 <= 1666 THEN 100 + ((o3 - 1372) * 50) \div 294
    ELSE IF o3 <= 2058 THEN 150 + ((o3 - 1666) * 50) \div 392
    ELSE 200

no2_to_aqi(no2) ==
    IF no2 <= 530 THEN (no2 * 50) \div 530
    ELSE IF no2 <= 1000 THEN 50 + ((no2 - 530) * 50) \div 470
    ELSE IF no2 <= 3600 THEN 100 + ((no2 - 1000) * 100) \div 2600
    ELSE 200

RECURSIVE MaxOf(_)
MaxOf(q) == IF Len(q) = 1 THEN q[1] ELSE Max(q[1], MaxOf(Tail(q)))

calculate_aqi_from_pollutants(pollutants) ==
    LET aqi_values ==
            (IF pollutants.pm25 > 0 THEN <<pm25_to_aqi(pollutants.pm25)>> ELSE <<>>)
            \o (IF pollutants.pm10 > 0 THEN <<pm10_to_aqi(pollutants.pm10)>> ELSE <<>>)
            \o (IF pollutants.o3 > 0 THEN <<ozone_to_aqi(pollutants.o3)>> ELSE <<>>)
            \o (IF pollutants.no2 > 0 THEN <<no2_to_aqi(pollutants.no2)>> ELSE <<>>)
    IN  IF aqi_values # <<>> THEN MaxOf(aqi_values) ELSE 50

\* max(aqi_values.items(), key=...) returns the first item, in insertion
\* order, among those of the greatest value
get_primary_pollutant(pollutants) ==
    LET names == <<"PM2.5", "PM10", "Ozone", "NO2">>
        aqi_values ==
            << IF pollutants.pm25 > 0 THEN pm25_to_aqi(pollutants.pm25) ELSE 0,
               IF pollutants.pm10 > 0 THEN pm10_to_aqi(pollutants.pm10) ELSE 0,
               IF pollutants.o3 > 0 THEN ozone_to_aqi(pollutants.o3) ELSE 0,
               IF pollutants.no2 > 0 THEN no2_to_aqi(pollutants.no2) ELSE 0 >>
        best == MaxOf(aqi_values)
        first == CHOOSE i \in 1..4 :
                    /\ aqi_values[i] = best
                    /\ \A j \in 1..(i - 1) : aqi_values[j] # best
    IN  names[first]

get_aqi_category(a) ==
    IF a <= 50 THEN "Good"
    ELSE IF a <= 100 THEN "Moderate"
    ELSE IF a <= 150 THEN "Unhealthy for Sensitive Groups"
    ELSE IF a <= 200 THEN "Unhealthy"
    ELSE IF a <= 300 THEN "Very Unhealthy"
    ELSE "Hazardous"

Parameters == {"pm25", "pm10", "o3", "no2", "so2", "co"}

\* Pollutants(pm25=pollutant_data.get('pm25', 0), ...): pd maps each
\* parameter to its reading, None when no measurement names the parameter
MakePollutants(pd) == [p \in Parameters |-> Get(pd[p], 0)]

NoReading == [present |-> FALSE, aqi |-> None, category |-> Absent,
              primary_pollutant |-> Absent]

convert_to_air_quality_reading(pd) ==
    IF \A p \in Parameters : pd[p] = None THEN NoReading
    ELSE LET pollutants == MakePollutants(pd)
             a == calculate_aqi_from_pollutants(pollutants)
         IN  [present |-> TRUE,
              aqi |-> a,
              category |-> get_aqi_category(a),
              primary_pollutant |-> get_primary_pollutant(pollutants)]

(***************************************************************************)
(* EnhancedAirQualityService._estimate_aqi_from_measurements               *)
(* Values in tenths; the float result is kept in thousandths (truncated).  *)
(***************************************************************************)
MilliAqi == 1000

EstimatePm25(value) ==
    IF value <= 120 THEN (value * 50 * MilliAqi) \div 120
    ELSE IF value <= 354 THEN 50 * MilliAqi + ((value - 120) * 50 * MilliAqi) \div 234
    ELSE IF value <= 554 THEN 100 * MilliAqi + ((value - 354) * 50 * MilliAqi) \div 200
    ELSE LET a == 150 * MilliAqi + ((value - 554) * 50 * MilliAqi) \div 1000
         IN  IF a < 500 * MilliAqi THEN a ELSE 500 * MilliAqi

EstimatePm10(value) ==
    IF value <= 540 THEN (value * 50 * MilliAqi) \div 540
    ELSE IF value <= 1540 THEN 50 * MilliAqi + ((value - 540) * 50 * MilliAqi) \div 1000
    ELSE LET a == 100 * MilliAqi + ((value - 1540) * 50 * MilliAqi) \div 1000
         IN  IF a < 500 * MilliAqi THEN a ELSE 500 * MilliAqi

RECURSIVE EstimateValues(_)
EstimateValues(ms) ==
    IF ms = <<>> THEN <<>>
    ELSE LET parameter == Lower(Head(ms).parameter)
             value == Get(Head(ms).value, 0)
             rest == EstimateValues(Tail(ms))
         IN  IF parameter = "pm25" /\ value > 0 THEN <<EstimatePm25(value)>> \o rest
             ELSE IF parameter = "pm10" /\ value > 0 THEN <<EstimatePm10(value)>> \o rest
             ELSE rest

estimate_aqi_from_measurements(ms) ==
    LET aqi_values == EstimateValues(ms)
    IN  IF aqi_values # <<>> THEN MaxOf(aqi_values) ELSE None

(***************************************************************************)
(* AdvancedForecastingService (forecasting_service.py) and                 *)
(* WeatherService.get_weather_forecast                                     *)
(*                                                                         *)
(* A predicted AQI is a product of decimal constants.  It is kept exactly, *)
(* as a decimal number [digits, scale]: digits is the sequence of decimal  *)
(* digits of value * 10^scale, least significant first.  The baseline AQI  *)
(* is in hundredths, reported AQIs are in tenths and confidences in        *)
(* hundredths.  The clock is read once per call: [hour, weekday] of        *)
(* datetime.utcnow().                                                      *)
(***************************************************************************)
RECURSIVE Digits(_)
Digits(n) == IF n = 0 THEN <<>> ELSE <<n % 10>> \o Digits(n \div 10)

RECURSIVE TimesCarry(_, _, _)
TimesCarry(ds, k, carry) ==
    IF ds = <<>> THEN Digits(carry)
    ELSE LET v == Head(ds) * k + carry
         IN  <<v % 10>> \o TimesCarry(Tail(ds), k, v \div 10)

\* x * (k / 10^decimals)
Times(x, k, decimals) ==
    [digits |-> TimesCarry(x.digits, k, 0), scale |-> x.scale + decimals]

Decimal(n, decimals) == [digits |-> Digits(n), scale |-> decimals]

RECURSIVE Value(_)
Value(ds) == IF ds = <<>> THEN 0 ELSE Head(ds) + 10 * Value(Tail(ds))

Drop(ds, n) == IF Len(ds) <= n THEN <<>> ELSE SubSeq(ds, n + 1, Len(ds))

Take(ds, n) == IF Len(ds) <= n THEN ds ELSE SubSeq(ds, 1, n)

IsZero(ds) == \A i \in 1..Len(ds) : ds[i] = 0

\* x <= t and x > t for a whole number t
AtMost(x, t) ==
    LET whole == Value(Drop(x.digits, x.scale))
    IN  whole < t \/ (whole = t /\ IsZero(Take(x.digits, x.scale)))

Above(x, t) == ~AtMost(x, t)

\* round(x, decimals) in units of 10^-decimals, for decimals < x.scale: the
\* nearest one, the even one when x is halfway
RoundDecimal(x, decimals) ==
    LET cut == x.scale - decimals
        kept == Value(Drop(x.digits, cut))
        first == IF Len(x.digits) >= cut THEN x.digits[cut] ELSE 0
        rest == Take(x.digits, cut - 1)
    IN  IF first > 5 \/ (first = 5 /\ ~IsZero(rest)) THEN kept + 1
        ELSE IF first = 5 /\ kept % 2 = 1 THEN kept + 1
        ELSE kept

Min(a, b) == IF a <= b THEN a ELSE b

assess_pollution_transport(wind_speed, pressure, temperature) ==
    IF wind_speed > 15 THEN "rapid_dispersion"
    ELSE IF wind_speed > 8 THEN "good_dispersion"
    ELSE IF wind_speed > 3 THEN "moderate_dispersion"
    ELSE IF pressure > 1020 /\ temperature > 25 * 60
        THEN "poor_dispersion_inversion"
    ELSE IF wind_speed < 1 THEN "stagnant_conditions"
    ELSE "limited_dispersion"

\* one WeatherForecast of get_weather_forecast; forecast_time is now + hour.
\* temperature is in sixtieths of a degree: 15 + latitude / 90 * 15
\* + 5 * |((h - 14) % 24 - 12) / 12| + hour * 0.1
WeatherForecast(latitude, now, hour) ==
    LET forecast_hour == (now.hour + hour) % 24
        temperature ==
            900 + 10 * latitude
            + 25 * Abs(((forecast_hour - 14) % 24) - 12) + 6 * hour
        wind_speed == 4 + (hour % 8) + (forecast_hour % 4)
        wind_direction == (forecast_hour * 20 + hour * 5) % 360
        precipitation_chance ==
            Max(0, Min(100, 20 + (hour % 24) * 2 + (forecast_hour % 8) * 5))
    IN  [temperature |-> temperature,
         humidity |-> 60 + (hour % 12) * 2 + (forecast_hour % 6) * 3,
         wind_speed |-> wind_speed,
         wind_direction |-> wind_direction,
         precipitation_chance |-> precipitation_chance,
         cloud_cover |-> 30 + (hour % 16) * 4,
         pressure_trend |->
            IF hour < 12 THEN "rising"
            ELSE IF hour < 36 THEN "stable"
            ELSE "falling",
         air_quality_impact |->
            IF wind_speed > 10 THEN "improving"
            ELSE IF wind_speed < 2 /\ precipitation_chance < 10 THEN "worsening"
            ELSE "stable",
         dispersion_conditions |->
            assess_pollution_transport(wind_speed, 1013, temperature)]

\* "Max 48 hours": range(1, min(hours_ahead + 1, 49))
get_weather_forecast(latitude, now, hours_ahead) ==
    [hour \in 1..(Min(hours_ahead + 1, 49) - 1) |->
        WeatherForecast(latitude, now, hour)]

\* hot hours are not distinguished
calculate_weather_aqi_impact_no_temperature(weather_hour) ==
    (IF weather_hour.wind_speed > 8 THEN 8
     ELSE IF weather_hour.wind_speed > 4 THEN 9
     ELSE IF weather_hour.wind_speed < 2 THEN 13
     ELSE 10)
    * (IF weather_hour.humidity > 80 THEN 110
       ELSE IF weather_hour.humidity < 40 THEN 95
       ELSE 100)
    * (IF weather_hour.precipitation_chance > 70 THEN 70
       ELSE IF weather_hour.precipitation_chance > 30 THEN 85
       ELSE 100)
    * 100

\* the modifier is a product of four factors with 1, 2, 2 and 2 decimals:
\* it is in units of 10^-7
calculate_weather_aqi_impact(weather_hour) ==
    LET wind ==
            IF weather_hour.wind_speed > 8 THEN 8
            ELSE IF weather_hour.wind_speed > 4 THEN 9
            ELSE IF weather_hour.wind_speed < 2 THEN 13
            ELSE 10
        humidity ==
            IF weather_hour.humidity > 80 THEN 110
            ELSE IF weather_hour.humidity < 40 THEN 95
            ELSE 100
        precipitation ==
            IF weather_hour.precipitation_chance > 70 THEN 70
            ELSE IF weather_hour.precipitation_chance > 30 THEN 85
            ELSE 100
        temperature == IF weather_hour.temperature > 30 * 60 THEN 105 ELSE 100
    IN  wind * humidity * precipitation * temperature

\* weather_factors of a forecast point; a key the dict lacks is None/Absent
NoWeatherFactors ==
    [model |-> Absent, status |-> Absent, wind_speed |-> None,
     wind_direction |-> None, temperature |-> None, humidity |-> None,
     precipitation_chance |-> None, dispersion_conditions |-> Absent,
     air_quality_impact |-> Absent]

\* weather_factors.get("temperature", 20) > 25 and .get("wind_speed", 5) < 3
determine_primary_pollutants(predicted_aqi, weather_factors) ==
    LET temperature ==
            IF weather_factors.temperature = None THEN 20 * 60
            ELSE weather_factors.temperature
        wind_speed ==
            IF weather_factors.wind_speed = None THEN 5
            ELSE weather_factors.wind_speed
        pollutants ==
            (IF Above(predicted_aqi, 100) THEN {"PM2.5", "NO2"} ELSE {})
            \cup (IF temperature > 25 * 60 THEN {"O3"} ELSE {})
            \cup (IF wind_speed < 3 THEN {"PM10"} ELSE {})
    IN  IF pollutants # {} THEN pollutants ELSE {"PM2.5"}

forecasting_get_aqi_level(predicted_aqi) ==
    IF AtMost(predicted_aqi, 50) THEN "Good"
    ELSE IF AtMost(predicted_aqi, 100) THEN "Moderate"
    ELSE IF AtMost(predicted_aqi, 150) THEN "Unhealthy for Sensitive Groups"
    ELSE IF AtMost(predicted_aqi, 200) THEN "Unhealthy"
    ELSE IF AtMost(predicted_aqi, 300) THEN "Very Unhealthy"
    ELSE "Hazardous"

\* the "general" entry of the returned dict stands for the dict
forecasting_get_health_recommendations(predicted_aqi) ==
    IF AtMost(predicted_aqi, 50)
        THEN "Air quality is good - ideal for outdoor activities"
    ELSE IF AtMost(predicted_aqi, 100)
        THEN "Air quality acceptable for most people"
    ELSE IF AtMost(predicted_aqi, 150)
        THEN "Some people may experience health effects"
    ELSE IF AtMost(predicted_aqi, 200)
        THEN "Everyone may experience health effects"
    ELSE "Health alert - everyone may experience serious effects"

\* forecast_time = datetime.utcnow() + timedelta(hours=hour)
ForecastTime(now, hour) ==
    [hour |-> (now.hour + hour) % 24,
     weekday |-> (now.weekday + (now.hour + hour) \div 24) % 7]

\* the loop stops one hour early
ForecastHours_exclusive(hours_ahead) == 1..(hours_ahead - 1)

\* "for hour in range(1, hours_ahead + 1)" of both strategies
ForecastHours(hours_ahead) == 1..hours_ahead

\* sin(2 * pi * k / 24) in millionths, for k = 0..6
QuarterSine == <<0, 258819, 500000, 707107, 866025, 965926, 1000000>>

Sine(k) ==
    LET m == k % 24
    IN  IF m <= 6 THEN QuarterSine[m + 1]
        ELSE IF m <= 12 THEN QuarterSine[13 - m]
        ELSE IF m <= 18 THEN -QuarterSine[m - 11]
        ELSE -QuarterSine[25 - m]

\* no variability is added
Variability_none(hour) == 100

\* 0.95 + (hour % 6) * 0.02, in hundredths
Variability(hour) == 95 + (hour % 6) * 2

\* predicted_aqi of the temporal strategy before it is rounded
TemporalAqi(current_aqi, now, hour) ==
    LET forecast_time == ForecastTime(now, hour)
        diurnal_factor == 10000000 + 2 * Sine(forecast_time.hour - 6)
        weekly_factor == IF forecast_time.weekday < 5 THEN 105 ELSE 95
        trend_factor == 1000 + hour * 2
    IN  Times(Times(Times(Times(Decimal(current_aqi, 2),
            diurnal_factor, 7), weekly_factor, 2), trend_factor, 3),
            Variability(hour), 2)

TemporalPoint(current_aqi, now, hour) ==
    LET forecast_time == ForecastTime(now, hour)
        predicted_aqi == TemporalAqi(current_aqi, now, hour)
        confidence == Max(40, 85 - hour)
    IN  [timestamp |-> forecast_time,
         hour_ahead |-> hour,
         predicted_aqi |-> RoundDecimal(predicted_aqi, 1),
         aqi_level |-> forecasting_get_aqi_level(predicted_aqi),
         confidence |-> confidence,
         primary_pollutants |-> {"PM2.5", "NO2"},
         weather_factors |-> [NoWeatherFactors EXCEPT !.model = "temporal_trend_only"],
         health_recommendations |-> forecasting_get_health_recommendations(predicted_aqi),
         data_sources |-> {"temporal_analysis"}]

generate_temporal_trend_forecast(baseline, now, hours_ahead) ==
    [hour \in ForecastHours(hours_ahead) |->
        TemporalPoint(baseline.current_aqi, now, hour)]

\* 0.9 - hour * 0.015 is a binary double.  At an odd hour its decimal value
\* ends in 5 thousandths and round(.., 2) goes by the double, which is below
\* the decimal value at these hours and above it at the other odd hours.
BelowHalfway == {3, 19, 21}

\* round(max(0.1, 0.9 - hour * 0.015), 2), in hundredths
WeatherConfidence(hour) ==
    LET confidence == Max(100, 900 - hour * 15)
    IN  IF confidence % 10 # 5 THEN Round(confidence, 10)
        ELSE IF hour \in BelowHalfway THEN confidence \div 10
        ELSE confidence \div 10 + 1

\* round(max(0.1, max(0.3, 0.7 - hour * 0.02)), 2), in hundredths
FallbackConfidence(hour) == Max(10, Max(30, 70 - hour * 2))

\* predicted_aqi of the weather-integrated strategy before it is rounded
WeatherIntegratedAqi(current_aqi, weather_forecast, hour) ==
    IF hour <= Len(weather_forecast)
        THEN Times(Times(Decimal(current_aqi, 2),
                calculate_weather_aqi_impact(weather_forecast[hour]), 7),
                1000 + hour * 5, 3)
    ELSE Times(Decimal(current_aqi, 2), 100 + hour, 2)

WeatherIntegratedPoint(current_aqi, weather_forecast, now, hour) ==
    LET has_weather == hour <= Len(weather_forecast)
        weather_hour == weather_forecast[hour]
        predicted_aqi == WeatherIntegratedAqi(current_aqi, weather_forecast, hour)
        weather_factors ==
            IF has_weather
                THEN [NoWeatherFactors EXCEPT
                        !.wind_speed = weather_hour.wind_speed,
                        !.wind_direction = weather_hour.wind_direction,
                        !.temperature = weather_hour.temperature,
                        !.humidity = weather_hour.humidity,
                        !.precipitation_chance = weather_hour.precipitation_chance,
                        !.dispersion_conditions = weather_hour.dispersion_conditions,
                        !.air_quality_impact = weather_hour.air_quality_impact]
            ELSE [NoWeatherFactors EXCEPT !.status = "weather_forecast_unavailable"]
    IN  [timestamp |-> ForecastTime(now, hour),
         hour_ahead |-> hour,
         predicted_aqi |-> RoundDecimal(predicted_aqi, 1),
         aqi_level |-> forecasting_get_aqi_level(predicted_aqi),
         confidence |->
            IF has_weather THEN WeatherConfidence(hour)
            ELSE FallbackConfidence(hour),
         primary_pollutants |->
            determine_primary_pollutants(predicted_aqi, weather_factors),
         weather_factors |-> weather_factors,
         health_recommendations |-> forecasting_get_health_recommendations(predicted_aqi),
         data_sources |-> {"weather_forecast", "ground_stations"}]

generate_weather_integrated_forecast(baseline, now, hours_ahead) ==
    [hour \in ForecastHours(hours_ahead) |->
        WeatherIntegratedPoint(baseline.current_aqi,
                               baseline.weather_forecast, now, hour)]

\* the weights are exchanged
EnsembleBlend_swapped(weather_value, temporal_value) ==
    weather_value * 4 + temporal_value * 6

\* "Weighted ensemble (60% weather-integrated, 40% temporal)": ten times the
\* blend of two values
EnsembleBlend(weather_value, temporal_value) ==
    weather_value * 6 + temporal_value * 4

generate_ensemble_forecast(baseline, now, hours_ahead) ==
    LET temporal_forecast ==
            generate_temporal_trend_forecast(baseline, now, hours_ahead)
        weather_forecast ==
            generate_weather_integrated_forecast(baseline, now, hours_ahead)
    IN  [i \in 1..Len(temporal_forecast) |->
            LET temporal_point == temporal_forecast[i]
                weather_point ==
                    IF i <= Len(weather_forecast) THEN weather_forecast[i]
                    ELSE temporal_point
                ensemble_aqi ==
                    Decimal(EnsembleBlend(weather_point.predicted_aqi,
                                          temporal_point.predicted_aqi), 2)
                ensemble_confidence ==
                    EnsembleBlend(weather_point.confidence, temporal_point.confidence)
            IN  [timestamp |-> temporal_point.timestamp,
                 hour_ahead |-> temporal_point.hour_ahead,
                 predicted_aqi |-> RoundDecimal(ensemble_aqi, 1),
                 aqi_level |-> forecasting_get_aqi_level(ensemble_aqi),
                 confidence |-> Round(ensemble_confidence, 10),
                 primary_pollutants |-> temporal_point.primary_pollutants,
                 weather_factors |-> weather_point.weather_factors,
                 health_recommendations |->
                    forecasting_get_health_recommendations(ensemble_aqi),
                 data_sources |->
                    temporal_point.data_sources \cup weather_point.data_sources]]

\* the local predicted_aqi (ensemble_aqi) of each hour of the loop, before
\* round(.., 1)
unrounded_predictions(model, baseline, now, hours_ahead) ==
    [hour \in ForecastHours(hours_ahead) |->
        IF model = "ensemble"
            THEN Decimal(EnsembleBlend(
                    WeatherIntegratedPoint(baseline.current_aqi,
                        baseline.weather_forecast, now, hour).predicted_aqi,
                    TemporalPoint(baseline.current_aqi, now, hour).predicted_aqi), 2)
        ELSE IF model = "weather_integrated"
            THEN WeatherIntegratedAqi(baseline.current_aqi,
                                      baseline.weather_forecast, hour)
        ELSE TemporalAqi(baseline.current_aqi, now, hour)]

\* the strategy that generate_comprehensive_forecast selects
generate_forecast(model, baseline, now, hours_ahead) ==
    IF model = "ensemble"
        THEN generate_ensemble_forecast(baseline, now, hours_ahead)
    ELSE IF model = "weather_integrated"
        THEN generate_weather_integrated_forecast(baseline, now, hours_ahead)
    ELSE generate_temporal_trend_forecast(baseline, now, hours_ahead)

(***************************************************************************)
(* PersonalizedHealthAlertService (health_alert_service.py)                *)
(*                                                                         *)
(* Sensitivity multipliers are in tenths.  base_aqi is in tenths and the   *)
(* adjustment factor, a product of factors with 1, 1, 2 and 1 decimals, in *)
(* units of 10^-5: adjusted_aqi is in units of 1/RiskScale.                *)
(***************************************************************************)
RiskScale == 1000000

condition_sensitivity ==
    [asthma |-> [pm2_5 |-> 20, o3 |-> 25, no2 |-> 20, so2 |-> 18],
     copd |-> [pm2_5 |-> 25, pm10 |-> 20, o3 |-> 22, no2 |-> 20],
     heart_disease |-> [pm2_5 |-> 20, pm10 |-> 18, co |-> 25, no2 |-> 15],
     diabetes |-> [pm2_5 |-> 15, o3 |-> 18, no2 |-> 15],
     pregnancy |-> [pm2_5 |-> 18, pm10 |-> 15, co |-> 20, o3 |-> 16],
     elderly |-> [pm2_5 |-> 18, pm10 |-> 15, o3 |-> 18, no2 |-> 15],
     children |-> [pm2_5 |-> 16, o3 |-> 20, no2 |-> 18, so2 |-> 15],
     healthy |-> [pm2_5 |-> 10, pm10 |-> 10, o3 |-> 10, no2 |-> 10,
                  so2 |-> 10, co |-> 10]]

risk_thresholds ==
    [asthma |-> [low |-> 30, moderate |-> 50, high |-> 100, very_high |-> 150],
     copd |-> [low |-> 25, moderate |-> 45, high |-> 90, very_high |-> 130],
     heart_disease |-> [low |-> 35, moderate |-> 55, high |-> 110, very_high |-> 160],
     elderly |-> [low |-> 40, moderate |-> 60, high |-> 120, very_high |-> 170],
     children |-> [low |-> 35, moderate |-> 55, high |-> 110, very_high |-> 160],
     healthy |-> [low |-> 50, moderate |-> 100, high |-> 150, very_high |-> 200]]

\* asthma is looked for before COPD
priority_order_asthma_first ==
    <<"asthma", "copd", "heart_disease", "pregnancy", "elderly", "children",
      "diabetes", "healthy">>

priority_order ==
    <<"copd", "asthma", "heart_disease", "pregnancy", "elderly", "children",
      "diabetes", "healthy">>

\* the first condition of priority_order that is in the list
get_primary_health_condition(condition_list) ==
    LET found ==
            {i \in 1..Len(priority_order) :
                \E j \in 1..Len(condition_list) :
                    condition_list[j] = priority_order[i]}
    IN  IF found # {}
            THEN priority_order[CHOOSE i \in found : \A k \in found : i <= k]
        ELSE "healthy"

\* the result when the function raises instead of returning
Raised(exception, adjusted) ==
    [raised |-> exception, risk_level |-> Absent, adjusted_aqi |-> adjusted]

\* the least sensitive applicable pollutant decides
AdjustmentFactor_min(adjusted_factors) ==
    IF adjusted_factors # {}
        THEN CHOOSE f \in adjusted_factors :
                \A other \in adjusted_factors : f <= other
    ELSE 10

\* max(adjusted_factors) if adjusted_factors else 1.0, in tenths
AdjustmentFactor(adjusted_factors) ==
    IF adjusted_factors # {}
        THEN CHOOSE f \in adjusted_factors :
                \A other \in adjusted_factors : f >= other
    ELSE 10

calculate_personalized_risk(aqi_value, profile, data) ==
    LET primary == get_primary_health_condition(profile.conditions)
        sensitivities == condition_sensitivity[primary]
        \* air_data.get("components", {})
        components == IF data.has_components THEN data.components ELSE {}
        adjusted_factors ==
            {sensitivities[p] : p \in components \cap DOMAIN sensitivities}
        sensitivity_level ==
            IF profile.sensitivity_level = "high" THEN 12
            ELSE IF profile.sensitivity_level = "low" THEN 9
            ELSE 10
        activity_level == IF profile.activity_level = "active" THEN 115 ELSE 100
        outdoor_exposure == IF profile.outdoor_exposure = "high" THEN 11 ELSE 10
        adjustment_factor ==
            AdjustmentFactor(adjusted_factors) * sensitivity_level
                * activity_level * outdoor_exposure
        adjusted_aqi == aqi_value * adjustment_factor
    IN  IF primary \notin DOMAIN risk_thresholds
            THEN Raised("KeyError", adjusted_aqi)
        ELSE LET thresholds == risk_thresholds[primary]
             IN  [raised |-> Absent,
                  risk_level |->
                    IF adjusted_aqi >= thresholds.very_high * RiskScale
                        THEN IF adjusted_aqi >= 300 * RiskScale THEN "extreme"
                             ELSE "very_high"
                    ELSE IF adjusted_aqi >= thresholds.high * RiskScale THEN "high"
                    ELSE IF adjusted_aqi >= thresholds.moderate * RiskScale
                        THEN "moderate"
                    ELSE "low",
                  adjusted_aqi |-> adjusted_aqi]

(***************************************************************************)
(* The alerts of PersonalizedHealthAlertService                            *)
(*                                                                         *)
(* A Python dict is a function on its keys.  Hourly AQIs are in tenths.    *)
(* An alert keeps its type, risk level, urgency and conditions, the hour   *)
(* that its text names and, for a forecast alert, the number of high-risk  *)
(* hours of its title.                                                     *)
(***************************************************************************)
\* d.get(key, default)
DictGet(d, key, default) == IF key \in DOMAIN d THEN d[key] ELSE default

\* s[:n]
Prefix(s, n) == SubSeq(s, 1, Min(n, Len(s)))

\* a ForecastDataPoint is an object with the nine fields of the dataclass, not
\* a dict: it has no get
IsForecastDataPoint(x) ==
    DOMAIN x = {"timestamp", "hour_ahead", "predicted_aqi", "aqi_level",
                "confidence", "primary_pollutants", "weather_factors",
                "health_recommendations", "data_sources"}

\* the user's conditions whose moderate threshold the AQI reaches
get_at_risk_conditions(aqi_value, user_conditions) ==
    IF \E j \in 1..Len(user_conditions) :
            user_conditions[j] \notin DOMAIN risk_thresholds
        THEN [raised |-> "KeyError", conditions |-> <<>>]
    ELSE [raised |-> Absent,
          conditions |->
            SelectSeq(user_conditions,
                      LAMBDA c : aqi_value >= risk_thresholds[c].moderate * 10)]

\* urgency scores are in millionths: exact for up to five conditions
UrgencyScale == 1000000

RECURSIVE Power(_, _)
Power(b, n) == IF n = 0 THEN 1 ELSE b * Power(b, n - 1)

base_scores ==
    [low |-> 10, moderate |-> 30, high |-> 60, very_high |-> 80, extreme |-> 100]

\* score *= 1.3 for asthma, COPD and heart disease, 1.1 for the others
RECURSIVE UrgencyProduct(_)
UrgencyProduct(at_risk_conditions) ==
    IF at_risk_conditions = <<>> THEN 1
    ELSE (IF Head(at_risk_conditions) \in {"asthma", "copd", "heart_disease"}
            THEN 13 ELSE 11) * UrgencyProduct(Tail(at_risk_conditions))

calculate_urgency_score(risk_level, at_risk_conditions) ==
    Min(base_scores[risk_level] * UrgencyProduct(at_risk_conditions)
            * Power(10, 5 - Len(at_risk_conditions)),
        10 * UrgencyScale)

Alert(type, level, hour, hours, urgency, health_conditions) ==
    [alert_type |-> type, risk_level |-> level, hour |-> hour,
     high_risk_hours |-> hours, urgency_score |-> urgency,
     health_conditions |-> health_conditions]

Raises(exception) == [raised |-> exception, alerts |-> <<>>]

Returns(alerts) == [raised |-> Absent, alerts |-> alerts]

\* _calculate_personalized_risk(hour_data.get("predicted_aqi", 0),
\* health_profile, hour_data)
HourRisk(hour_data, profile) ==
    IF IsForecastDataPoint(hour_data) THEN Raised("AttributeError", None)
    ELSE calculate_personalized_risk(
            DictGet(hour_data, "predicted_aqi", 0), profile,
            [has_components |-> "components" \in DOMAIN hour_data,
             components |-> DictGet(hour_data, "components", {})])

HighRiskLevels == {"high", "very_high", "extreme"}

\* the least element of a non-empty set of numbers
Least(S) == CHOOSE x \in S : \A y \in S : x <= y

\* the greatest element of a non-empty set of numbers
Greatest(S) == CHOOSE x \in S : \A y \in S : x >= y

\* forecast_data[:6]
EmergencyWindow == 6

\* the first of the next 6 hours that classifies EXTREME or has an adjusted
\* AQI above 300 gives the one emergency alert; the loop ends there
check_emergency_conditions(forecast, profile) ==
    LET hours == Prefix(forecast, EmergencyWindow)
        risk(i) == HourRisk(hours[i], profile)
        stops == {i \in 1..Len(hours) :
                    \/ risk(i).raised # Absent
                    \/ risk(i).risk_level = "extreme"
                    \/ risk(i).adjusted_aqi > 300 * RiskScale}
    IN  IF stops = {} THEN Returns(<<>>)
        ELSE IF risk(Least(stops)).raised # Absent
            THEN Raises(risk(Least(stops)).raised)
        ELSE Returns(<<Alert("emergency", "extreme", Least(stops), 0,
                             10 * UrgencyScale, profile.conditions)>>)

\* the values of RiskLevel, a str enumeration, in the order of their strings
RiskLevelValues == <<"extreme", "high", "low", "moderate", "very_high">>

\* max() of RiskLevel members compares their string values
MaxRiskLevel(levels) ==
    RiskLevelValues[Greatest({i \in 1..Len(RiskLevelValues) :
                                RiskLevelValues[i] \in levels})]

\* forecast_data[:24]
ForecastWindow == 24

\* one alert when any of the next 24 hours classifies HIGH, VERY_HIGH or
\* EXTREME
generate_forecast_alerts(forecast, profile) ==
    LET hours == Prefix(forecast, ForecastWindow)
        risk(i) == HourRisk(hours[i], profile)
        failed == {i \in 1..Len(hours) : risk(i).raised # Absent}
        high_risk_periods ==
            {i \in 1..Len(hours) : risk(i).risk_level \in HighRiskLevels}
        at_risk_conditions ==
            get_at_risk_conditions(
                Greatest({DictGet(hours[i], "predicted_aqi", 0) :
                            i \in high_risk_periods}),
                profile.conditions)
        max_risk_level == MaxRiskLevel({risk(i).risk_level : i \in high_risk_periods})
    IN  IF failed # {} THEN Raises(risk(Least(failed)).raised)
        ELSE IF high_risk_periods = {} THEN Returns(<<>>)
        ELSE IF at_risk_conditions.raised # Absent
            THEN Raises(at_risk_conditions.raised)
        ELSE Returns(<<Alert("forecast", max_risk_level, Least(high_risk_periods),
                             Cardinality(high_risk_periods),
                             (calculate_urgency_score(max_risk_level,
                                    at_risk_conditions.conditions) * 8) \div 10,
                             at_risk_conditions.conditions)>>)

\* current_analysis.get("current_aqi") in tenths; None and 0 give no alert
generate_immediate_alert(current_analysis, profile) ==
    LET current_aqi == DictGet(current_analysis, "current_aqi", None)
        risk == calculate_personalized_risk(
                    current_aqi, profile,
                    [has_components |-> "components" \in DOMAIN current_analysis,
                     components |-> DictGet(current_analysis, "components", {})])
        at_risk_conditions == get_at_risk_conditions(current_aqi, profile.conditions)
    IN  IF ~Truthy(current_aqi) THEN Returns(<<>>)
        ELSE IF risk.raised # Absent THEN Raises(risk.raised)
        ELSE IF risk.risk_level \notin HighRiskLevels THEN Returns(<<>>)
        ELSE IF at_risk_conditions.raised # Absent
            THEN Raises(at_risk_conditions.raised)
        ELSE Returns(<<Alert("immediate", risk.risk_level, 0, 0,
                             calculate_urgency_score(risk.risk_level,
                                    at_risk_conditions.conditions),
                             at_risk_conditions.conditions)>>)

\* alerts.sort(key=lambda x: x.urgency_score, reverse=True): stable
RECURSIVE SortByUrgency(_)
SortByUrgency(alerts) ==
    IF alerts = <<>> THEN <<>>
    ELSE LET top == Greatest({alerts[i].urgency_score : i \in 1..Len(alerts)})
             first == Least({i \in 1..Len(alerts) : alerts[i].urgency_score = top})
         IN  <<alerts[first]>>
                \o SortByUrgency(SubSeq(alerts, 1, first - 1)
                                    \o SubSeq(alerts, first + 1, Len(alerts)))

\* what generate_comprehensive_forecast returns; the current AQI, kept in
\* hundredths by the strategies, is in tenths in the dict
generate_comprehensive_forecast(model, baseline, request) ==
    IF baseline.current_aqi = None
        THEN [success |-> FALSE, error |-> "TypeError",
              location |-> request.latitude, timestamp |-> request.now]
    ELSE LET forecast ==
                generate_forecast(model, baseline, request.now, request.hours_ahead)
         IN  [success |-> TRUE,
              location |-> request.latitude,
              forecast_metadata |->
                [model_used |-> model, forecast_generated |-> request.now,
                 forecast_hours |-> request.hours_ahead],
              current_conditions |->
                [current_aqi |-> baseline.current_aqi \div 10,
                 aqi_level |->
                    IF Truthy(baseline.current_aqi)
                        THEN forecasting_get_aqi_level(
                                Decimal(baseline.current_aqi, 2))
                    ELSE "Unknown"],
              forecast |-> forecast,
              forecast_summary |-> [forecast_period |-> Len(forecast)],
              hackathon_features |-> [multi_model_ensemble |-> model = "ensemble"]]

\* the alerts of a forecast result, most urgent first; [] when the forecast
\* failed and when anything raised
generate_personalized_alerts(result, profile) ==
    IF ~DictGet(result, "success", FALSE) THEN <<>>
    ELSE LET forecast == DictGet(result, "forecast_data", <<>>)
             current_analysis == DictGet(result, "current_analysis", <<>>)
             immediate_alert == generate_immediate_alert(current_analysis, profile)
             forecast_alerts == generate_forecast_alerts(forecast, profile)
             emergency_alerts == check_emergency_conditions(forecast, profile)
         IN  IF \/ immediate_alert.raised # Absent
                \/ forecast_alerts.raised # Absent
                \/ emergency_alerts.raised # Absent
                THEN <<>>
             ELSE SortByUrgency(immediate_alert.alerts \o forecast_alerts.alerts
                                    \o emergency_alerts.alerts)

(***************************************************************************)
(* ServiceManager and BaseService: the HTTP clients of the services        *)
(***************************************************************************)

\* self.services, a dict in insertion order
services == <<"epa", "openaq">>

ServiceNames == {services[i] : i \in 1..Len(services)}

ManagerMethods == {"get_aggregated_current_data",
                   "get_historical_data_aggregated",
                   "health_check_all"}

\* the _make_request calls the service's method awaits one after the other:
\* get_current_data, get_historical_data or health_check
Requests(method, service) ==
    CASE method = "get_aggregated_current_data" ->
            IF service = "epa" THEN 2 ELSE 1
      [] method = "get_historical_data_aggregated" ->
            IF service = "epa" THEN 0 ELSE 1
      [] method = "health_check_all" -> 1

NoTask == [state |-> "none", requests |-> 0, outcome |-> Absent]

\* a coroutine other than the manager's runs only while the manager waits:
\* in aclose() or in gather()
ManagerSuspended == manager_pc \in {"closing", "gather"}

\* what client.request(...) can do on a client in the given state: TRUE when it
\* raises at once, FALSE when the request goes out and the task waits for the
\* response.  What a client does once aclose() has been called on it is the
\* HTTP library's affair
RequestRaises(state) ==
    CASE state = "none" -> {TRUE}
      [] state = "open" -> {FALSE}
      [] OTHER -> BOOLEAN

\* the service's method runs on, from its start or from a response, until it
\* awaits again or returns: _make_request checks self.client and calls
\* client.request, and every exception ends the method (except Exception)
RunTask(service, remaining) ==
    IF remaining = 0
    THEN /\ task' = [task EXCEPT ![service] =
                        [state |-> "done", requests |-> 0,
                         outcome |-> "returned"]]
         /\ UNCHANGED request_log
    ELSE IF client[service] = "none"
    THEN /\ task' = [task EXCEPT ![service] =
                        [state |-> "done", requests |-> remaining,
                         outcome |-> "RuntimeError"]]
         /\ UNCHANGED request_log
    ELSE /\ request_log' = request_log \cup
                {[method |-> manager_method, service |-> service,
                  client |-> client[service]]}
         /\ \E raises \in RequestRaises(client[service]) :
                task' = [task EXCEPT ![service] =
                    IF raises
                    THEN [state |-> "done", requests |-> remaining,
                          outcome |-> "error"]
                    ELSE [state |-> "requesting", requests |-> remaining,
                          outcome |-> Absent]]


(***************************************************************************)
(* OpenAQService of backend_backup: the rate limiter.  Times are in units  *)
(* of 100 milliseconds.                                                    *)
(***************************************************************************)

\* timedelta(milliseconds=100)
min_request_interval == 1

\* timedelta(hours=1), and the 3600 seconds of sleep_time
RateLimitWindow == 36000

\* datetime.min: long before anything the clock reads
datetime_min == 0 - 2 * RateLimitWindow

MaxCoroutines == 2

Coroutines == 1..MaxCoroutines

MaxRateLimit == 2

\* settings.openaq_rate_limit is a setting of the deployment
RateLimits == 1..MaxRateLimit

MaxCalls == 4

MaxSteps == 3

NotCalling == [pc |-> "idle", now |-> None, wake |-> None]

\* a call of _rate_limit has come to its last two lines: the request passes
Pass(c, count, start, through) ==
    /\ last_request_time' = limiter_now
    /\ request_count' = count + 1
    /\ rate_limit_window_start' = start
    /\ passed' = through + 1
    /\ coroutine' = [coroutine EXCEPT ![c] = NotCalling]

\* the minimum interval between requests, measured from the `now` the call
\* read when it began
IntervalCheck(c, now, count, start, through) ==
    LET time_since_last == now - last_request_time
    IN  IF time_since_last < min_request_interval
        THEN /\ coroutine' = [coroutine EXCEPT ![c] =
                    [pc |-> "sleep_interval", now |-> now,
                     wake |-> limiter_now
                              + (min_request_interval - time_since_last)]]
             /\ request_count' = count
             /\ rate_limit_window_start' = start
             /\ passed' = through
             /\ UNCHANGED last_request_time
        ELSE Pass(c, count, start, through)


(***************************************************************************)
(* PerformanceOptimizer: the in-memory cache.  _cache is a dict: a sequence *)
(* of entries in insertion order.  Coordinates are in thousandths of a     *)
(* degree, times in minutes.                                               *)
(***************************************************************************)

\* timedelta(minutes=10)
cache_ttl == 10

\* "Keep max 100 entries"
MaxEntries == 100

NoCacheCall == [method |-> Absent, key |-> <<>>, result |-> Absent,
                evicted |-> {}]

\* coordinates rounded to two decimals
generate_cache_key(latitude, longitude) ==
    <<Round(latitude, 10), Round(longitude, 10)>>

Keys(c) == {c[i].key : i \in 1..Len(c)}

Range(c) == {c[i] : i \in 1..Len(c)}

Entry(c, key) == c[CHOOSE i \in 1..Len(c) : c[i].key = key]

\* c[key] = entry: a key the dict has keeps its place
Put(c, entry) ==
    IF entry.key \in Keys(c)
    THEN [i \in 1..Len(c) |-> IF c[i].key = entry.key THEN entry ELSE c[i]]
    ELSE Append(c, entry)

\* del c[key]
Delete(c, key) ==
    LET Other(e) == e.key # key
    IN  SelectSeq(c, Other)

\* min(keys, key=timestamp) of a dict that keeps the last of equal timestamps
oldest_key_last_of_equals(c) ==
    c[CHOOSE i \in 1..Len(c) :
          \A j \in 1..Len(c) :
              \/ c[i].timestamp < c[j].timestamp
              \/ c[i].timestamp = c[j].timestamp /\ i >= j].key

\* min(self._cache.keys(), key=lambda k: self._cache[k]["timestamp"]): the
\* first, in insertion order, of the keys with the least timestamp
oldest_key(c) ==
    c[CHOOSE i \in 1..Len(c) :
          \A j \in 1..Len(c) :
              \/ c[i].timestamp < c[j].timestamp
              \/ c[i].timestamp = c[j].timestamp /\ i <= j].key

\* the cache after update_memory_cache
update_memory_cache(c, latitude, longitude, data, now) ==
    LET cache_key == generate_cache_key(latitude, longitude)
        written == Put(c, [key |-> cache_key, data |-> data,
                           timestamp |-> now])
    IN  IF Len(written) > MaxEntries
        THEN Delete(written, oldest_key(written))
        ELSE written

\* check_memory_cache: the cache afterwards and the returned data or None
check_memory_cache(c, latitude, longitude, now) ==
    LET cache_key == generate_cache_key(latitude, longitude)
    IN  IF cache_key \in Keys(c)
        THEN IF now - Entry(c, cache_key).timestamp < cache_ttl
             THEN [cache |-> c, result |-> Entry(c, cache_key).data]
             ELSE [cache |-> Delete(c, cache_key), result |-> "None"]
        ELSE [cache |-> c, result |-> "None"]

\* the cache after clear_cache; latitude and longitude may be None
clear_cache(c, location_specific, latitude, longitude) ==
    IF location_specific /\ latitude # None /\ longitude # None
    THEN Delete(c, generate_cache_key(latitude, longitude))
    ELSE <<>>


(***************************************************************************)
(* The inputs of the calls                                                 *)
(***************************************************************************)
MaxStations == 4
MaxOffset == 6
MaxMeasurements == 2

\* _get_ground_station_data returns None or a summary of at least one
\* station, whose average_aqi is None when no station had a usable estimate
BaseAqis == {40, 96, 100, 150}

GroundInputs ==
    {NoGround} \cup
    {[present |-> TRUE, total_stations |-> n, average_aqi |-> a] :
        n \in 1..MaxStations, a \in {None} \cup BaseAqis}

Snapshot(wind, hum, pres, rain, snow) ==
    [wind_speed |-> wind, humidity |-> hum, pressure |-> pres,
     rain |-> rain, snow |-> snow]

CurrentWeathers ==
    {Snapshot(0, 50, 1025, 0, 0), Snapshot(25, 50, 1025, 0, 0),
     Snapshot(30, 50, 1013, 0, 0), Snapshot(120, 50, 1000, 200, 0)}

WeatherInputs == {NoWeather} \cup {WeatherEnhancedData(w) : w \in CurrentWeathers}

SatelliteAqis == {95, 100, 101, 120, 159, 160}

SatelliteInputs ==
    {NoSatellite} \cup
    {[present |-> TRUE, aqi_estimate |-> e, data_quality |-> q] :
        e \in {None} \cup SatelliteAqis,
        q \in {"good", "poor"}}

PollutantIds == {"pm25", "pm10", "o3", "no2", "so2", "co", "PM25", "nh3"}

Boundaries(breakpoints) ==
    UNION {{breakpoints[i][1], breakpoints[i][2]} : i \in 1..Len(breakpoints)}

Interiors(breakpoints) ==
    {breakpoints[i][1] + (breakpoints[i][2] - breakpoints[i][1]) \div 3 :
        i \in 1..Len(breakpoints)}

\* every tick within MaxOffset of a breakpoint, which covers the ticks
\* between two rows and beyond the last row, and a tick inside each row
Concentrations(p) ==
    IF Lower(p) \in DOMAIN aqi_breakpoints
        THEN LET breakpoints == aqi_breakpoints[Lower(p)]
             IN  {c \in {b + k : b \in Boundaries(breakpoints),
                                 k \in (0 - MaxOffset)..MaxOffset} : c >= 0}
                 \cup Interiors(breakpoints)
    ELSE {0, 1000}

ReadingValues ==
    [pm25 |-> {None, 0, 120, 400}, pm10 |-> {None, 0, 540, 2000},
     o3 |-> {None, 0, 1060, 1500}, no2 |-> {None, 0, 530, 1200},
     so2 |-> {None, 2000}, co |-> {None, 50}]

PollutantDataInputs ==
    {pd \in [Parameters -> {None, 0, 50, 120, 400, 530, 540, 1060, 1200, 1500, 2000}] :
        \A p \in Parameters : pd[p] \in ReadingValues[p]}

MeasurementInputs ==
    UNION {[1..n -> [parameter : {"pm25", "PM10", "pm10", "o3"},
                     value : {None, 0, 100, 400, 2000}]] : n \in 0..MaxMeasurements}

WindSpeeds == {None, 0, 20, 21, 29, 30, 50, 51, 100, 101, 120}
Humidities == {None, 29, 30, 50, 80, 81}
Pressures == {None, 999, 1000, 1020, 1021, 1025}
Rains == {None, 0, 10, 11, 100, 101, 200}
Snows == {None, 0, 5}

MaxHoursAhead == 72

ModelTypes == {"ensemble", "weather_integrated", "temporal_trend"}

\* current_aqi in hundredths; None when the current analysis gave no AQI
CurrentAqis == {None, 3, 4200, 8200, 15200, 32000}

HoursAheadInputs == {1, 2, 48, 49, MaxHoursAhead}

\* the number of hours asked of get_weather_forecast
WeatherHoursInputs == {0, 1, 24, 41, 48}

Latitudes == {0, 45}

\* Monday 00h, Friday 13h, Sunday 23h
Clocks == {[hour |-> 0, weekday |-> 0], [hour |-> 13, weekday |-> 4],
           [hour |-> 23, weekday |-> 6]}

NoBaseline == [current_aqi |-> None, weather_forecast |-> <<>>]
NoRequest == [latitude |-> 0, hours_ahead |-> 0,
              now |-> [hour |-> 0, weekday |-> 0]]

MaxConditions == 3

HealthConditions ==
    {"asthma", "copd", "heart_disease", "diabetes", "pregnancy", "elderly",
     "children", "healthy"}

\* the lists of at most MaxConditions conditions, in every order and with
\* repetitions
ConditionLists == UNION {[1..n -> HealthConditions] : n \in 0..MaxConditions}

HealthProfiles ==
    {[conditions |-> l, sensitivity_level |-> s, age_group |-> "adult",
      activity_level |-> a, outdoor_exposure |-> o] :
        l \in {<<c>> : c \in HealthConditions}
                \cup {<<>>, <<"diabetes", "asthma">>,
                      <<"healthy", "elderly", "children">>},
        s \in {"low", "normal", "high"},
        a \in {"sedentary", "active"},
        o \in {"minimal", "high"}}

\* the keys of air_data["components"], or no such key
AirDataInputs ==
    {[has_components |-> FALSE, components |-> {}]}
    \cup {[has_components |-> TRUE, components |-> c] :
            c \in {{"o3"}, {"co"}, {"so2", "nh3"}, {"pm2_5", "o3"},
                   {"pm2_5", "pm10", "o3", "no2", "so2", "co"}}}

\* AQIs in tenths
RiskAqis == {0, 400, 600, 1200, 2609, 3000}

\* the forecasts given to _check_emergency_conditions have at most
\* MaxEmergencyHours hours, those given to _generate_forecast_alerts at most
\* MaxAlertHours
MaxEmergencyHours == 8
MaxAlertHours == 26

AlertProfiles ==
    {[conditions |-> l, sensitivity_level |-> s, age_group |-> "adult",
      activity_level |-> "sedentary", outdoor_exposure |-> "minimal"] :
        l \in {<<>>, <<"healthy">>, <<"asthma">>, <<"diabetes">>,
               <<"asthma", "pregnancy">>},
        s \in {"normal", "high"}}

\* an hour at AQI 40
CalmHour == [predicted_aqi |-> 400]

\* hours at AQI 210, 300 and 300.1, an hour at AQI 250 with ozone measured
\* and an hour without a predicted AQI
EmergencyHours ==
    {[predicted_aqi |-> 2100], [predicted_aqi |-> 3000], [predicted_aqi |-> 3001],
     [predicted_aqi |-> 2500, components |-> {"o3"}], <<>>}

\* n calm hours, but hour_data at the hours of S
Spiked(n, S, hour_data) == [i \in 1..n |-> IF i \in S THEN hour_data ELSE CalmHour]

EmergencyForecasts ==
    {Spiked(n, {p, q}, h) :
        n \in 0..MaxEmergencyHours, p \in 0..MaxEmergencyHours,
        q \in 0..MaxEmergencyHours, h \in EmergencyHours}

\* hours at AQI 40, 160, 210 and 300.1
AlertAqis == {400, 1600, 2100, 3001}

AlertForecasts ==
    {[i \in 1..n |-> IF i = p THEN [predicted_aqi |-> a]
                     ELSE IF i = q THEN [predicted_aqi |-> b]
                     ELSE CalmHour] :
        n \in {0, 1, 23, 24, MaxAlertHours}, p \in {1, 12, 24},
        q \in {2, 23, 25}, a \in AlertAqis, b \in AlertAqis}

\* current AQIs that are whole tenths
AlertCurrentAqis == {None, 4200, 15200, 32000}

AlertHoursAhead == {6, 24}

NoProfile ==
    [conditions |-> <<>>, sensitivity_level |-> Absent, age_group |-> Absent,
     activity_level |-> Absent, outdoor_exposure |-> Absent]
NoAirData == [has_components |-> FALSE, components |-> {}]
NoRisk == [raised |-> Absent, risk_level |-> Absent, adjusted_aqi |-> None]
NoAtRisk == [raised |-> Absent, conditions |-> <<>>]
NoForecastResult == [success |-> FALSE]
NoAlerts == [raised |-> Absent, alerts |-> <<>>]

NoSnapshot == Snapshot(None, None, None, None, None)
NoModifiers == [aqi_modifier |-> None, dispersion_factor |-> None,
                pressure_factor |-> None, humidity_factor |-> None,
                precipitation_factor |-> None]
NoPollutantData == [p \in Parameters |-> None]

(***************************************************************************)
(* The state machine                                                       *)
(***************************************************************************)
Init ==
    /\ pc = "idle"
    /\ ground_data = NoGround
    /\ weather_data = NoWeather
    /\ satellite_data = NoSatellite
    /\ integration_result = NoResult
    /\ pollutant = Absent
    /\ concentration = None
    /\ aqi = None
    /\ pollutant_data = NoPollutantData
    /\ reading = NoReading
    /\ measurements = <<>>
    /\ estimated_aqi = None
    /\ weather_input = NoSnapshot
    /\ modifiers = NoModifiers
    /\ model_type = Absent
    /\ baseline_data = NoBaseline
    /\ forecast_request = NoRequest
    /\ forecast_data = <<>>
    /\ unrounded_aqi = <<>>
    /\ conditions = <<>>
    /\ primary_condition = Absent
    /\ risk_base_aqi = None
    /\ health_profile = NoProfile
    /\ air_data = NoAirData
    /\ personalized_risk = NoRisk
    /\ at_risk = NoAtRisk
    /\ hour_forecast = <<>>
    /\ forecast_result = NoForecastResult
    /\ alert_result = NoAlerts
    /\ manager_method = Absent
    /\ manager_pc = "idle"
    /\ service_index = 1
    /\ client = [s \in ServiceNames |-> "none"]
    /\ task = [s \in ServiceNames |-> NoTask]
    /\ request_log = {}
    /\ rate_limit = None
    /\ request_count = None
    /\ rate_limit_window_start = None
    /\ last_request_time = None
    /\ limiter_now = 0
    /\ coroutine = [c \in Coroutines |-> NotCalling]
    /\ passed = 0
    /\ limiter_calls = 0
    /\ limiter_steps = 0
    /\ cache = <<>>
    /\ cache_now = 0
    /\ cache_call = NoCacheCall
    /\ cache_touches = 0

Integrate ==
    /\ pc = "idle"
    /\ \E g \in GroundInputs, w \in WeatherInputs, s \in SatelliteInputs :
        /\ ground_data' = g
        /\ weather_data' = w
        /\ satellite_data' = s
        /\ integration_result' = integrate_data_sources(g, w, s)
    /\ pc' = "integrate_data_sources"
    /\ UNCHANGED <<component_vars,
                   pollutant, concentration, aqi, pollutant_data, reading,
                   measurements, estimated_aqi, weather_input, modifiers,
                   forecast_vars, health_vars, alert_vars>>

CalculateAqi ==
    /\ pc = "idle"
    /\ \E p \in PollutantIds :
        \E c \in Concentrations(p) :
            /\ pollutant' = p
            /\ concentration' = c
            /\ aqi' = calculate_aqi(p, c)
    /\ pc' = "calculate_aqi"
    /\ UNCHANGED <<component_vars,
                   ground_data, weather_data, satellite_data, integration_result,
                   pollutant_data, reading, measurements, estimated_aqi,
                   weather_input, modifiers,
                   forecast_vars, health_vars, alert_vars>>

ConvertToAirQualityReading ==
    /\ pc = "idle"
    /\ \E pd \in PollutantDataInputs :
        /\ pollutant_data' = pd
        /\ reading' = convert_to_air_quality_reading(pd)
    /\ pc' = "convert_to_air_quality_reading"
    /\ UNCHANGED <<component_vars,
                   ground_data, weather_data, satellite_data, integration_result,
                   pollutant, concentration, aqi, measurements, estimated_aqi,
                   weather_input, modifiers,
                   forecast_vars, health_vars, alert_vars>>

EstimateAqiFromMeasurements ==
    /\ pc = "idle"
    /\ \E ms \in MeasurementInputs :
        /\ measurements' = ms
        /\ estimated_aqi' = estimate_aqi_from_measurements(ms)
    /\ pc' = "estimate_aqi_from_measurements"
    /\ UNCHANGED <<component_vars,
                   ground_data, weather_data, satellite_data, integration_result,
                   pollutant, concentration, aqi, pollutant_data, reading,
                   weather_input, modifiers,
                   forecast_vars, health_vars, alert_vars>>

CalculateModifiers ==
    /\ pc = "idle"
    /\ \E wind \in WindSpeeds, hum \in Humidities, pres \in Pressures,
          rain \in Rains, snow \in Snows :
        /\ weather_input' = Snapshot(wind, hum, pres, rain, snow)
        /\ modifiers' = calculate_air_quality_modifiers(Snapshot(wind, hum, pres, rain, snow))
    /\ pc' = "calculate_air_quality_modifiers"
    /\ UNCHANGED <<component_vars,
                   ground_data, weather_data, satellite_data, integration_result,
                   pollutant, concentration, aqi, pollutant_data, reading,
                   measurements, estimated_aqi,
                   forecast_vars, health_vars, alert_vars>>

\* generate_comprehensive_forecast from the selection of the strategy on,
\* with the baseline that _collect_baseline_data gathered.  Without a current
\* AQI the strategies raise TypeError (None * float) and the forecast fails.
GenerateForecast ==
    /\ pc = "idle"
    /\ \E m \in ModelTypes, c \in CurrentAqis, l \in WeatherHoursInputs,
          lat \in Latitudes, now \in Clocks, h \in HoursAheadInputs :
        LET b == [current_aqi |-> c,
                  weather_forecast |-> get_weather_forecast(lat, now, l)]
        IN  /\ model_type' = m
            /\ baseline_data' = b
            /\ forecast_request' = [latitude |-> lat, hours_ahead |-> h, now |-> now]
            /\ IF c = None
                   THEN /\ forecast_data' = <<>>
                        /\ unrounded_aqi' = <<>>
                        /\ pc' = "forecast_failed"
                   ELSE /\ forecast_data' = generate_forecast(m, b, now, h)
                        /\ unrounded_aqi' = unrounded_predictions(m, b, now, h)
                        /\ pc' = "generate_forecast"
    /\ UNCHANGED <<component_vars,
                   ground_data, weather_data, satellite_data, integration_result,
                   pollutant, concentration, aqi, pollutant_data, reading,
                   measurements, estimated_aqi, weather_input, modifiers,
                   health_vars, alert_vars>>

GetPrimaryHealthCondition ==
    /\ pc = "idle"
    /\ \E l \in ConditionLists :
        /\ conditions' = l
        /\ primary_condition' = get_primary_health_condition(l)
    /\ pc' = "get_primary_health_condition"
    /\ UNCHANGED <<component_vars,
                   ground_data, weather_data, satellite_data, integration_result,
                   pollutant, concentration, aqi, pollutant_data, reading,
                   measurements, estimated_aqi, weather_input, modifiers,
                   forecast_vars, risk_base_aqi, health_profile, air_data,
                   personalized_risk, alert_vars>>

\* the call returns <<risk_level, adjusted_aqi>> or raises
CalculatePersonalizedRisk ==
    /\ pc = "idle"
    /\ \E a \in RiskAqis, profile \in HealthProfiles, data \in AirDataInputs :
        /\ risk_base_aqi' = a
        /\ health_profile' = profile
        /\ air_data' = data
        /\ personalized_risk' = calculate_personalized_risk(a, profile, data)
    /\ pc' = "calculate_personalized_risk"
    /\ UNCHANGED <<component_vars,
                   ground_data, weather_data, satellite_data, integration_result,
                   pollutant, concentration, aqi, pollutant_data, reading,
                   measurements, estimated_aqi, weather_input, modifiers,
                   forecast_vars, conditions, primary_condition, alert_vars>>

GetAtRiskConditions ==
    /\ pc = "idle"
    /\ \E a \in RiskAqis, l \in ConditionLists :
        /\ risk_base_aqi' = a
        /\ conditions' = l
        /\ at_risk' = get_at_risk_conditions(a, l)
    /\ pc' = "get_at_risk_conditions"
    /\ UNCHANGED <<component_vars,
                   ground_data, weather_data, satellite_data, integration_result,
                   pollutant, concentration, aqi, pollutant_data, reading,
                   measurements, estimated_aqi, weather_input, modifiers,
                   forecast_vars, primary_condition, health_profile, air_data,
                   personalized_risk, hour_forecast, forecast_result,
                   alert_result>>

CheckEmergencyConditions ==
    /\ pc = "idle"
    /\ \E f \in EmergencyForecasts, profile \in AlertProfiles :
        /\ hour_forecast' = f
        /\ health_profile' = profile
        /\ alert_result' = check_emergency_conditions(f, profile)
    /\ pc' = "check_emergency_conditions"
    /\ UNCHANGED <<component_vars,
                   ground_data, weather_data, satellite_data, integration_result,
                   pollutant, concentration, aqi, pollutant_data, reading,
                   measurements, estimated_aqi, weather_input, modifiers,
                   forecast_vars, conditions, primary_condition, risk_base_aqi,
                   air_data, personalized_risk, at_risk, forecast_result>>

GenerateForecastAlerts ==
    /\ pc = "idle"
    /\ \E f \in AlertForecasts, profile \in AlertProfiles :
        /\ hour_forecast' = f
        /\ health_profile' = profile
        /\ alert_result' = generate_forecast_alerts(f, profile)
    /\ pc' = "generate_forecast_alerts"
    /\ UNCHANGED <<component_vars,
                   ground_data, weather_data, satellite_data, integration_result,
                   pollutant, concentration, aqi, pollutant_data, reading,
                   measurements, estimated_aqi, weather_input, modifiers,
                   forecast_vars, conditions, primary_condition, risk_base_aqi,
                   air_data, personalized_risk, at_risk, forecast_result>>

\* the whole request: the forecast of the forecasting service with its default
\* ensemble model, then the three alert generators over what the dict gives
GeneratePersonalizedAlerts ==
    /\ pc = "idle"
    /\ \E c \in AlertCurrentAqis, l \in {0, 48}, lat \in Latitudes,
          now \in Clocks, h \in AlertHoursAhead, profile \in AlertProfiles :
        LET b == [current_aqi |-> c,
                  weather_forecast |-> get_weather_forecast(lat, now, l)]
            request == [latitude |-> lat, hours_ahead |-> h, now |-> now]
            result == generate_comprehensive_forecast("ensemble", b, request)
        IN  /\ forecast_result' = result
            /\ health_profile' = profile
            /\ alert_result' = Returns(generate_personalized_alerts(result, profile))
    /\ pc' = "generate_personalized_alerts"
    /\ UNCHANGED <<component_vars,
                   ground_data, weather_data, satellite_data, integration_result,
                   pollutant, concentration, aqi, pollutant_data, reading,
                   measurements, estimated_aqi, weather_input, modifiers,
                   forecast_vars, conditions, primary_condition, risk_base_aqi,
                   air_data, personalized_risk, at_risk, hour_forecast>>

\* the request is over: nothing is kept between calls
Return ==
    /\ pc # "idle"
    /\ pc' = "idle"
    /\ ground_data' = NoGround
    /\ weather_data' = NoWeather
    /\ satellite_data' = NoSatellite
    /\ integration_result' = NoResult
    /\ pollutant' = Absent
    /\ concentration' = None
    /\ aqi' = None
    /\ pollutant_data' = NoPollutantData
    /\ reading' = NoReading
    /\ measurements' = <<>>
    /\ estimated_aqi' = None
    /\ weather_input' = NoSnapshot
    /\ modifiers' = NoModifiers
    /\ model_type' = Absent
    /\ baseline_data' = NoBaseline
    /\ forecast_request' = NoRequest
    /\ forecast_data' = <<>>
    /\ unrounded_aqi' = <<>>
    /\ conditions' = <<>>
    /\ primary_condition' = Absent
    /\ risk_base_aqi' = None
    /\ health_profile' = NoProfile
    /\ air_data' = NoAirData
    /\ personalized_risk' = NoRisk
    /\ at_risk' = NoAtRisk
    /\ hour_forecast' = <<>>
    /\ forecast_result' = NoForecastResult
    /\ alert_result' = NoAlerts
    /\ UNCHANGED component_vars

Next ==
    \/ Integrate
    \/ CalculateAqi
    \/ ConvertToAirQualityReading
    \/ EstimateAqiFromMeasurements
    \/ CalculateModifiers
    \/ GenerateForecast
    \/ GetPrimaryHealthCondition
    \/ CalculatePersonalizedRisk
    \/ Return

Spec == Init /\ [][Next]_vars

\* the alert generators of PersonalizedHealthAlertService
AlertNext ==
    \/ CalculatePersonalizedRisk
    \/ GetAtRiskConditions
    \/ CheckEmergencyConditions
    \/ GenerateForecastAlerts
    \/ GeneratePersonalizedAlerts
    \/ Return

AlertSpec == Init /\ [][AlertNext]_vars

(***************************************************************************)
(* ServiceManager: one call of a method at a time.  The event loop runs    *)
(* one coroutine until it awaits something that is not ready.              *)
(***************************************************************************)

\* a request handler calls one of the three methods
CallManager ==
    /\ manager_pc = "idle"
    /\ \E method \in ManagerMethods : manager_method' = method
    /\ manager_pc' = "enter"
    /\ service_index' = 1
    /\ task' = [s \in ServiceNames |-> NoTask]
    /\ request_log' = {}
    /\ UNCHANGED <<call_vars, client, limiter_vars, cache_vars>>

\* async with service: __aenter__ makes a new client and awaits nothing
AEnter ==
    /\ manager_pc = "enter"
    /\ client' = [client EXCEPT ![services[service_index]] = "open"]
    /\ manager_pc' = "create_task"
    /\ UNCHANGED <<call_vars, manager_method, service_index, task, request_log,
                   limiter_vars, cache_vars>>

\* asyncio.create_task schedules the coroutine; it has not run yet
CreateTask ==
    /\ manager_pc = "create_task"
    /\ task' = [task EXCEPT ![services[service_index]] =
                   [state |-> "created",
                    requests |-> Requests(manager_method,
                                          services[service_index]),
                    outcome |-> Absent]]
    /\ manager_pc' = "aexit"
    /\ UNCHANGED <<call_vars, manager_method, service_index, client,
                   request_log, limiter_vars, cache_vars>>

\* the loop goes to the next service, or on to asyncio.gather, which waits
NextService ==
    IF service_index < Len(services)
    THEN /\ service_index' = service_index + 1
         /\ manager_pc' = "enter"
    ELSE /\ service_index' = service_index
         /\ manager_pc' = "gather"

\* the with block ends: __aexit__ awaits client.aclose(), which either
\* finishes at once or lets the event loop run other coroutines meanwhile
AExit ==
    /\ manager_pc = "aexit"
    /\ IF client[services[service_index]] = "none"
       THEN /\ UNCHANGED client
            /\ NextService
       ELSE \/ /\ client' = [client EXCEPT
                                ![services[service_index]] = "closed"]
               /\ NextService
            \/ /\ client' = [client EXCEPT
                                ![services[service_index]] = "closing"]
               /\ manager_pc' = "closing"
               /\ UNCHANGED service_index
    /\ UNCHANGED <<call_vars, manager_method, task, request_log,
                   limiter_vars, cache_vars>>

\* aclose() is through
Closed ==
    /\ manager_pc = "closing"
    /\ client' = [client EXCEPT ![services[service_index]] = "closed"]
    /\ NextService
    /\ UNCHANGED <<call_vars, manager_method, task, request_log,
                   limiter_vars, cache_vars>>

\* the event loop starts a task that was created
TaskStart(service) ==
    /\ ManagerSuspended
    /\ task[service].state = "created"
    /\ RunTask(service, task[service].requests)
    /\ UNCHANGED <<call_vars, manager_method, manager_pc, service_index,
                   client, limiter_vars, cache_vars>>

\* a response or a network error arrives for the request a task waits on
TaskResponse(service) ==
    /\ ManagerSuspended
    /\ task[service].state = "requesting"
    /\ \/ RunTask(service, task[service].requests - 1)
       \/ /\ task' = [task EXCEPT ![service] =
                         [state |-> "done", requests |-> task[service].requests,
                          outcome |-> "error"]]
          /\ UNCHANGED request_log
    /\ UNCHANGED <<call_vars, manager_method, manager_pc, service_index,
                   client, limiter_vars, cache_vars>>

\* asyncio.gather returns when every task is done; the method returns
Gathered ==
    /\ manager_pc = "gather"
    /\ \A s \in ServiceNames : task[s].state = "done"
    /\ manager_pc' = "idle"
    /\ manager_method' = Absent
    /\ UNCHANGED <<call_vars, service_index, client, task, request_log,
                   limiter_vars, cache_vars>>

ManagerNext ==
    \/ CallManager
    \/ AEnter
    \/ CreateTask
    \/ AExit
    \/ Closed
    \/ \E s \in ServiceNames : TaskStart(s)
    \/ \E s \in ServiceNames : TaskResponse(s)
    \/ Gathered

ManagerSpec == Init /\ [][ManagerNext]_vars


(***************************************************************************)
(* OpenAQService._rate_limit called by several coroutines of one event     *)
(* loop: a call runs until it awaits asyncio.sleep, and goes on when the   *)
(* sleep is over.                                                          *)
(***************************************************************************)

\* OpenAQService.__init__
NewOpenAQService ==
    /\ rate_limit = None
    /\ \E limit \in RateLimits : rate_limit' = limit
    /\ last_request_time' = datetime_min
    /\ request_count' = 0
    /\ rate_limit_window_start' = limiter_now
    /\ passed' = 0
    /\ UNCHANGED <<call_vars, manager_vars, limiter_now, coroutine,
                   limiter_calls, limiter_steps, cache_vars>>

\* _make_request awaits _rate_limit: from its first line to the first sleep,
\* or to its end when it does not sleep
RateLimit(c) ==
    /\ rate_limit # None
    /\ coroutine[c].pc = "idle"
    /\ limiter_calls < MaxCalls
    /\ limiter_calls' = limiter_calls + 1
    /\ LET now == limiter_now
           expired == now - rate_limit_window_start > RateLimitWindow
           count == IF expired THEN 0 ELSE request_count
           start == IF expired THEN now ELSE rate_limit_window_start
           through == IF expired THEN 0 ELSE passed
           sleep_time == RateLimitWindow - (now - start)
       IN  IF count >= rate_limit /\ sleep_time > 0
           THEN /\ coroutine' = [coroutine EXCEPT ![c] =
                       [pc |-> "sleep_window", now |-> now,
                        wake |-> limiter_now + sleep_time]]
                /\ request_count' = count
                /\ rate_limit_window_start' = start
                /\ passed' = through
                /\ UNCHANGED last_request_time
           ELSE IntervalCheck(c, now, count, start, through)
    /\ UNCHANGED <<call_vars, manager_vars, rate_limit, limiter_now,
                   limiter_steps, cache_vars>>

\* the sleep to the end of the window is over: the counter and the window are
\* reset, then the minimum interval is checked
WakeWindow(c) ==
    /\ coroutine[c].pc = "sleep_window"
    /\ limiter_now >= coroutine[c].wake
    /\ IntervalCheck(c, coroutine[c].now, 0, limiter_now, 0)
    /\ UNCHANGED <<call_vars, manager_vars, rate_limit, limiter_now,
                   limiter_calls, limiter_steps, cache_vars>>

\* the sleep for the minimum interval is over
WakeInterval(c) ==
    /\ coroutine[c].pc = "sleep_interval"
    /\ limiter_now >= coroutine[c].wake
    /\ Pass(c, request_count, rate_limit_window_start, passed)
    /\ UNCHANGED <<call_vars, manager_vars, rate_limit, limiter_now,
                   limiter_calls, limiter_steps, cache_vars>>

\* the times at which a sleeping call is due
Due == {coroutine[c].wake : c \in {k \in Coroutines : coroutine[k].pc # "idle"}}

\* time passes: to the next instant a sleeper is due, or, when none is due
\* before, by the minimum interval, by the window or by just more than it
Elapse ==
    /\ limiter_steps < MaxSteps
    /\ \A t \in Due : t > limiter_now
    /\ \E t \in {limiter_now + min_request_interval,
                 limiter_now + RateLimitWindow,
                 limiter_now + RateLimitWindow + 1} \cup Due :
        /\ \A d \in Due : t <= d
        /\ limiter_now' = t
    /\ limiter_steps' = limiter_steps + 1
    /\ UNCHANGED <<call_vars, manager_vars, rate_limit, request_count,
                   rate_limit_window_start, last_request_time, coroutine,
                   passed, limiter_calls, cache_vars>>

LimiterNext ==
    \/ NewOpenAQService
    \/ \E c \in Coroutines : RateLimit(c)
    \/ \E c \in Coroutines : WakeWindow(c)
    \/ \E c \in Coroutines : WakeInterval(c)
    \/ Elapse

LimiterSpec == Init /\ [][LimiterNext]_vars


(***************************************************************************)
(* PerformanceOptimizer: calls on the one performance_optimizer.  None of  *)
(* the three methods awaits, so each call is one step.                     *)
(***************************************************************************)

MaxCacheLocations == 103

CacheLongitudes == {90123}

CacheData == {"reading"}

MaxCacheTime == 20

MaxTouches == 3

Edge == 1

\* time passes, and calls are made for places the cache has, while the cache
\* is nearly empty or nearly full
AtEdge(c) == Len(c) <= Edge \/ Len(c) >= MaxEntries - Edge

\* the places a call is made for in a state, as hundredths of a degree of
\* latitude: the one after the farthest in the cache and, for a bounded
\* number of calls, the one first and the one last put into it
NewPlace(c) ==
    LET next == IF c = <<>> THEN 1
                ELSE Greatest({c[i].key[1] : i \in 1..Len(c)}) + 1
    IN  IF next <= MaxCacheLocations THEN {next} ELSE {}

OldPlaces(c) == IF c = <<>> THEN {} ELSE {c[1].key[1], c[Len(c)].key[1]}

Probes(c) ==
    NewPlace(c) \cup (IF cache_touches < MaxTouches /\ AtEdge(c)
                      THEN OldPlaces(c) ELSE {})

\* two points for each place: they round to the same key
CacheLatitudes(c) == {10 * k + e : k \in Probes(c), e \in {0, 4}}

Touches(c, key) == IF key = <<>> \/ key[1] \in OldPlaces(c) THEN 1 ELSE 0

UpdateMemoryCache ==
    /\ \E lat \in CacheLatitudes(cache), lng \in CacheLongitudes,
          data \in CacheData :
        LET written == Put(cache, [key |-> generate_cache_key(lat, lng),
                                   data |-> data, timestamp |-> cache_now])
            updated == update_memory_cache(cache, lat, lng, data, cache_now)
        IN  /\ cache' = updated
            /\ cache_call' = [method |-> "update_memory_cache",
                              key |-> generate_cache_key(lat, lng),
                              result |-> "None",
                              evicted |-> Range(written) \ Range(updated)]
            /\ cache_touches' = cache_touches
                   + Touches(cache, generate_cache_key(lat, lng))
    /\ UNCHANGED <<call_vars, manager_vars, limiter_vars, cache_now>>

CheckMemoryCache ==
    /\ cache_touches < MaxTouches
    /\ AtEdge(cache)
    /\ \E lat \in CacheLatitudes(cache), lng \in CacheLongitudes :
        LET checked == check_memory_cache(cache, lat, lng, cache_now)
        IN  /\ cache' = checked.cache
            /\ cache_call' = [method |-> "check_memory_cache",
                              key |-> generate_cache_key(lat, lng),
                              result |-> checked.result,
                              evicted |-> {}]
    /\ cache_touches' = cache_touches + 1
    /\ UNCHANGED <<call_vars, manager_vars, limiter_vars, cache_now>>

ClearCache ==
    /\ cache_touches < MaxTouches
    /\ AtEdge(cache)
    /\ \E location_specific \in BOOLEAN,
          lat \in CacheLatitudes(cache) \cup {None},
          lng \in CacheLongitudes \cup {None} :
        /\ cache' = clear_cache(cache, location_specific, lat, lng)
        /\ cache_call' = [method |-> "clear_cache",
                          key |-> IF lat # None /\ lng # None
                                  THEN generate_cache_key(lat, lng)
                                  ELSE <<>>,
                          result |-> "True",
                          evicted |-> {}]
    /\ cache_touches' = cache_touches + 1
    /\ UNCHANGED <<call_vars, manager_vars, limiter_vars, cache_now>>

\* the time to live goes by between two calls
CacheTime ==
    /\ cache_now + cache_ttl <= MaxCacheTime
    /\ AtEdge(cache)
    /\ cache_now' = cache_now + cache_ttl
    /\ UNCHANGED <<call_vars, manager_vars, limiter_vars, cache, cache_call,
                   cache_touches>>

CacheNext ==
    \/ UpdateMemoryCache
    \/ CheckMemoryCache
    \/ ClearCache
    \/ CacheTime

CacheSpec == Init /\ [][CacheNext]_vars


(***************************************************************************)
(* Properties                                                              *)
(***************************************************************************)
Integrated == pc = "integrate_data_sources"

HasGroundAqi == ground_data.present /\ ground_data.average_aqi # None

HasSatelliteAqi == satellite_data.present /\ satellite_data.aqi_estimate # None

\* C1: final_aqi of _integrate_data_sources is the ground average AQI times
\* the weather modifier when a ground average AQI and weather data are
\* present, the ground average AQI when there is no weather data, the
\* satellite estimate when there is no ground AQI, and absent when there is
\* neither; it is present exactly when a source gave an estimate.
C1_FinalAqiPriority ==
    Integrated =>
        LET r == integration_result
        IN  /\ (HasGroundAqi /\ weather_data.present) =>
                r.final_aqi = ground_data.average_aqi * weather_data.concentration_modifier
            /\ (HasGroundAqi /\ ~weather_data.present) =>
                r.final_aqi = ground_data.average_aqi * ModScale
            /\ (~HasGroundAqi /\ HasSatelliteAqi) =>
                r.final_aqi = satellite_data.aqi_estimate * ModScale
            /\ (~HasGroundAqi /\ ~HasSatelliteAqi) => r.final_aqi = None
            /\ (r.final_aqi # None) <=> (HasGroundAqi \/ HasSatelliteAqi)

\* the satellite estimate is the final AQI of a request that has ground
\* stations without a usable AQI
C1_Witness ==
    /\ Integrated
    /\ ground_data.present
    /\ ~HasGroundAqi
    /\ weather_data.present
    /\ HasSatelliteAqi
    /\ integration_result.final_aqi = 95 * ModScale

\* C2: when final_aqi is absent the overall confidence level is "low".
C2_NoFinalAqiLowConfidence ==
    Integrated =>
        (integration_result.final_aqi = None =>
            integration_result.confidence_overall = "low")

\* C3: calculate_aqi('pm25', c) is non-decreasing in c.
C3_Pm25Monotone ==
    (pc = "calculate_aqi" /\ pollutant = "pm25") =>
        \A c1 \in Concentrations("pm25") :
            c1 <= concentration => calculate_aqi("pm25", c1) <= aqi

InTable == Lower(pollutant) \in DOMAIN aqi_breakpoints

\* C4: at the lower and at the upper breakpoint of every row of every
\* pollutant, calculate_aqi returns exactly the AQI bound of the row.
C4_BoundaryExact ==
    (pc = "calculate_aqi" /\ InTable) =>
        LET breakpoints == aqi_breakpoints[Lower(pollutant)]
        IN  \A i \in 1..Len(breakpoints) :
                /\ concentration = breakpoints[i][1] => aqi = breakpoints[i][3]
                /\ concentration = breakpoints[i][2] => aqi = breakpoints[i][4]

C4_Witness ==
    /\ pc = "calculate_aqi"
    /\ pollutant = "pm25"
    /\ concentration = 3540
    /\ aqi = 100

\* C5: for every pollutant of the table and every concentration,
\* calculate_aqi is in 0..500, and is 500 above the last breakpoint.
C5_RangeAndCeiling ==
    (pc = "calculate_aqi" /\ InTable) =>
        LET breakpoints == aqi_breakpoints[Lower(pollutant)]
        IN  /\ aqi \in 0..500
            /\ concentration > breakpoints[Len(breakpoints)][2] => aqi = 500

C5_Witness ==
    /\ pc = "calculate_aqi"
    /\ pollutant = "o3"
    /\ concentration = 2001
    /\ aqi = 500

\* C6: calculate_aqi of a pollutant that is not in the table is absent.
C6_UnknownPollutantAbsent ==
    (pc = "calculate_aqi" /\ ~InTable) => aqi = None

\* the parameter that a primary-pollutant name stands for
NamedParameter(name) ==
    CASE name = "PM2.5" -> "pm25"
      [] name = "PM10" -> "pm10"
      [] name = "Ozone" -> "o3"
      [] name = "NO2" -> "no2"
      [] name = "SO2" -> "so2"
      [] name = "CO" -> "co"
      [] OTHER -> Absent

Priority(p) ==
    CASE p = "pm25" -> 1 [] p = "pm10" -> 2 [] p = "o3" -> 3
      [] p = "no2" -> 4 [] p = "so2" -> 5 [] p = "co" -> 6

\* the sub-index of a reading, for the four pollutants the service converts
SubIndex(p, value) ==
    CASE p = "pm25" -> pm25_to_aqi(value)
      [] p = "pm10" -> pm10_to_aqi(value)
      [] p = "o3" -> ozone_to_aqi(value)
      [] p = "no2" -> no2_to_aqi(value)

Converted == {"pm25", "pm10", "o3", "no2"}

\* C7: for a non-empty set of readings the composite AQI is the greatest
\* sub-index of the pollutants that have a reading, and the primary pollutant
\* is one of them whose sub-index is that maximum, the first in the order
\* PM2.5 > PM10 > O3 > NO2 > SO2 > CO.
C7_CompositeIsMax ==
    (pc = "convert_to_air_quality_reading" /\ reading.present) =>
        LET have == {p \in Parameters : pollutant_data[p] # None}
            named == NamedParameter(reading.primary_pollutant)
        IN  /\ named \in have
            /\ \A p \in have \cap Converted :
                    SubIndex(p, pollutant_data[p]) <= reading.aqi
            /\ named \in Converted =>
                    SubIndex(named, pollutant_data[named]) = reading.aqi
            /\ \A p \in have \cap Converted :
                    SubIndex(p, pollutant_data[p]) = reading.aqi =>
                        Priority(named) <= Priority(p)

\* C8: without a usable reading (no measurement, or every concentration 0)
\* both composite computations return no estimate.
C8_NoUsableReadingNoEstimate ==
    /\ (pc = "convert_to_air_quality_reading"
            /\ \A p \in Parameters : pollutant_data[p] \in {None, 0}) =>
        reading.aqi = None
    /\ (pc = "estimate_aqi_from_measurements"
            /\ \A i \in 1..Len(measurements) :
                    \/ Lower(measurements[i].parameter) \notin {"pm25", "pm10"}
                    \/ measurements[i].value \in {None, 0}) =>
        estimated_aqi = None

WindBand(wind) ==
    CASE wind > 100 -> 14 [] wind > 50 /\ wind <= 100 -> 17
      [] wind > 20 /\ wind <= 50 -> 20 [] wind <= 20 -> 26

\* C9: aqi_modifier is the product of the four band factors (in twentieths:
\* 0.7, 0.85, 1.0, 1.3 for the wind; 1.25, 0.9, 1.0 for the pressure; 1.15,
\* 0.95, 1.0 for the humidity; 0.6, 0.8, 1.0 for the precipitation), and
\* dispersion_factor is the wind factor; the two examples give 1.625 and 0.42.
C9_ModifierIsBandProduct ==
    pc = "calculate_air_quality_modifiers" =>
        LET wind == IF weather_input.wind_speed = None THEN 0
                    ELSE weather_input.wind_speed
            hum == IF weather_input.humidity = None THEN 50
                   ELSE weather_input.humidity
            pres == IF weather_input.pressure = None THEN 1013
                    ELSE weather_input.pressure
            rain == IF weather_input.rain = None THEN 0 ELSE weather_input.rain
            snow == IF weather_input.snow = None THEN 0 ELSE weather_input.snow
            d == WindBand(wind)
            p == CASE pres > 1020 /\ wind < 30 -> 25
                   [] ~(pres > 1020 /\ wind < 30) /\ pres < 1000 -> 18
                   [] OTHER -> 20
            h == CASE hum > 80 -> 23 [] hum < 30 -> 19 [] OTHER -> 20
            w == CASE rain + snow > 100 -> 12
                   [] rain + snow > 10 /\ rain + snow <= 100 -> 16
                   [] OTHER -> 20
        IN  /\ modifiers.aqi_modifier = d * p * h * w
            /\ modifiers.dispersion_factor = d
            /\ weather_input = Snapshot(0, 50, 1025, 0, 0) =>
                    modifiers.aqi_modifier * 1000 = 1625 * ModScale
            /\ weather_input = Snapshot(120, 50, 1000, 200, 0) =>
                    modifiers.aqi_modifier * 100 = 42 * ModScale

\* high pressure with a wind of 3 m/s: no inversion factor
C9_Witness ==
    /\ pc = "calculate_air_quality_modifiers"
    /\ weather_input = Snapshot(30, 50, 1025, 0, 0)
    /\ modifiers.aqi_modifier = ModScale
    /\ modifiers.dispersion_factor = FactorScale

\* C10: an agreement assessment has difference d = |satellite_aqi -
\* weather_adjusted_aqi| (the ground AQI itself when no weather modifier was
\* applied); d < 20 is "good" and "validated", 20 <= d < 40 is "moderate"
\* and "validated", d >= 40 is "poor" and "inconsistent".
C10_AgreementBands ==
    (Integrated /\ integration_result.agreement_level # Absent) =>
        LET r == integration_result
            adjusted == IF r.weather_adjusted_aqi # None THEN r.weather_adjusted_aqi
                        ELSE r.base_aqi
            d == r.difference
        IN  /\ d = Abs(r.satellite_aqi - adjusted)
            /\ d < 20 * ModScale =>
                    r.agreement_level = "good" /\ r.validation_status = "validated"
            /\ (20 * ModScale <= d /\ d < 40 * ModScale) =>
                    r.agreement_level = "moderate" /\ r.validation_status = "validated"
            /\ d >= 40 * ModScale =>
                    r.agreement_level = "poor" /\ r.validation_status = "inconsistent"

\* 120 against 95: d = 25, "moderate", "validated"
C10_Witness ==
    /\ Integrated
    /\ integration_result.weather_adjusted_aqi = 120 * ModScale
    /\ integration_result.satellite_aqi = 95 * ModScale
    /\ integration_result.difference = 25 * ModScale
    /\ integration_result.agreement_level = "moderate"
    /\ integration_result.validation_status = "validated"

HasAgreementAssessment == integration_result.agreement_level # Absent

\* C11 as stated: the satellite/ground agreement assessment is in the result
\* if and only if the result has both a weather-adjusted AQI and a satellite
\* AQI estimate.
C11_AgreementIffWeatherAdjusted ==
    Integrated =>
        (HasAgreementAssessment <=>
            /\ integration_result.weather_adjusted_aqi # None
            /\ integration_result.satellite_aqi # None)

\* C11: the satellite/ground agreement assessment is in the result if and
\* only if the result has both a ground AQI (base_aqi, weather-adjusted or
\* not) and a satellite AQI estimate.
C11_AgreementIffGroundAndSatellite ==
    Integrated =>
        (HasAgreementAssessment <=>
            /\ integration_result.base_aqi # None
            /\ integration_result.satellite_aqi # None)

\* ground stations and a satellite estimate are compared without weather
C11_Witness ==
    /\ Integrated
    /\ ~weather_data.present
    /\ integration_result.weather_adjusted_aqi = None
    /\ integration_result.base_aqi = 100 * ModScale
    /\ integration_result.satellite_aqi = 120 * ModScale
    /\ integration_result.agreement_level = "moderate"

\* the base scores, in hundredths, of the sources given to the call
ContributingScores ==
    (IF ground_data.present
        THEN {<<"ground", IF ground_data.total_stations > 3 THEN 80 ELSE 60>>}
        ELSE {})
    \cup (IF weather_data.present THEN {<<"weather", 90>>} ELSE {})
    \cup (IF satellite_data.present THEN {<<"satellite", 70>>} ELSE {})

RECURSIVE ScoreTotal(_)
ScoreTotal(S) ==
    IF S = {} THEN 0
    ELSE LET x == CHOOSE y \in S : TRUE IN x[2] + ScoreTotal(S \ {x})

\* the level of the mean total/n: m > 0.75, 0.5 < m <= 0.75, otherwise
LevelOfMean(total, n) ==
    IF total > 75 * n THEN "high"
    ELSE IF total > 50 * n /\ total <= 75 * n THEN "moderate"
    ELSE "low"

\* C12: the overall confidence level is the level of the arithmetic mean m
\* of the base scores of the contributing sources (ground 0.8 with more than
\* 3 stations, else 0.6; weather 0.9; satellite 0.7): "high" if m > 0.75,
\* "moderate" if 0.5 < m <= 0.75, "low" otherwise; ground and weather without
\* satellite give "high" with more than 3 stations and "moderate" otherwise.
C12_ConfidenceIsLevelOfMean ==
    (Integrated /\ ContributingScores # {}) =>
        LET S == ContributingScores
            r == integration_result
        IN  /\ r.confidence_overall = LevelOfMean(ScoreTotal(S), Cardinality(S))
            /\ (ground_data.present /\ weather_data.present
                    /\ ~satellite_data.present) =>
                    r.confidence_overall =
                        IF ground_data.total_stations > 3 THEN "high" ELSE "moderate"

\* three stations and weather: the mean is exactly 0.75, "moderate"
C12_Witness ==
    /\ Integrated
    /\ ground_data.present
    /\ ground_data.total_stations = 3
    /\ weather_data.present
    /\ ~satellite_data.present
    /\ integration_result.confidence_overall = "moderate"

ConfidenceRank(level) ==
    IF level = "low" THEN 0 ELSE IF level = "moderate" THEN 1 ELSE 2

\* the calls that have a subset of the sources of the current call
SubsetCalls ==
    {ground_data, NoGround} \X {weather_data, NoWeather}
        \X {satellite_data, NoSatellite}

\* C13: the overall confidence is monotonic in the set of contributing
\* sources: with the same station count, a call with a subset of the sources
\* of another call has a confidence level that is not higher (low < moderate
\* < high).
C13_ConfidenceMonotonic ==
    Integrated =>
        \A c \in SubsetCalls :
            ConfidenceRank(integrate_data_sources(c[1], c[2], c[3]).confidence_overall)
                <= ConfidenceRank(integration_result.confidence_overall)

Forecasted == pc = "generate_forecast"

\* C14: for each of the three strategies, every hours_ahead >= 1 and every
\* length of the weather forecast, the returned list has exactly hours_ahead
\* points and its i-th point has hour_ahead = i.
C14_OnePointPerHour ==
    Forecasted =>
        /\ Len(forecast_data) = forecast_request.hours_ahead
        /\ \A i \in 1..forecast_request.hours_ahead :
                forecast_data[i].hour_ahead = i

\* an ensemble forecast of 49 hours without any weather forecast
C14_Witness ==
    /\ Forecasted
    /\ model_type = "ensemble"
    /\ baseline_data.weather_forecast = <<>>
    /\ forecast_request.hours_ahead = 49
    /\ Len(forecast_data) = 49
    /\ forecast_data[49].hour_ahead = 49

\* C15: in the output of the temporal-trend and of the weather-integrated
\* strategy the confidence never increases from one hour to the next, also
\* from the last hour that has a weather snapshot to the first that has none.
C15_ConfidenceNonIncreasing ==
    (Forecasted /\ model_type \in {"temporal_trend", "weather_integrated"}) =>
        \A i \in 1..(Len(forecast_data) - 1) :
            forecast_data[i + 1].confidence <= forecast_data[i].confidence

\* the outputs of the two single strategies for the call of the state
WeatherIntegratedOfCall ==
    generate_weather_integrated_forecast(baseline_data, forecast_request.now,
                                         forecast_request.hours_ahead)

TemporalTrendOfCall ==
    generate_temporal_trend_forecast(baseline_data, forecast_request.now,
                                     forecast_request.hours_ahead)

\* C16: at every hour of an ensemble forecast, predicted_aqi is 0.6 times the
\* weather-integrated predicted_aqi plus 0.4 times the temporal-trend
\* predicted_aqi up to the rounding to one decimal (half a tenth), confidence
\* is the same blend of the two confidences up to the rounding to two
\* decimals, and data_sources is the union of the two points' tags.
C16_EnsembleIsBlend ==
    (Forecasted /\ model_type = "ensemble") =>
        \A i \in 1..Len(forecast_data) :
            LET e == forecast_data[i]
                w == WeatherIntegratedOfCall[i]
                t == TemporalTrendOfCall[i]
            IN  /\ Abs(100 * e.predicted_aqi
                        - (60 * w.predicted_aqi + 40 * t.predicted_aqi)) <= 50
                /\ Abs(100 * e.confidence
                        - (60 * w.confidence + 40 * t.confidence)) <= 50
                /\ e.data_sources = w.data_sources \cup t.data_sources

\* 0.6 * 63.0 + 0.4 * 98.2 = 77.08, reported 77.1; 0.6 * 0.89 + 0.4 * 0.84
\* = 0.87
C16_Witness ==
    /\ Forecasted
    /\ model_type = "ensemble"
    /\ WeatherIntegratedOfCall[1].predicted_aqi = 630
    /\ TemporalTrendOfCall[1].predicted_aqi = 982
    /\ forecast_data[1].predicted_aqi = 771
    /\ WeatherIntegratedOfCall[1].confidence = 89
    /\ TemporalTrendOfCall[1].confidence = 84
    /\ forecast_data[1].confidence = 87
    /\ forecast_data[1].data_sources =
            {"weather_forecast", "ground_stations", "temporal_analysis"}

\* C17: every predicted_aqi reported in a forecast point, of every strategy
\* and for every non-negative baseline AQI, is strictly positive after the
\* rounding to one decimal.
C17_PredictedAqiPositive ==
    Forecasted =>
        \A i \in 1..Len(forecast_data) : forecast_data[i].predicted_aqi > 0

\* the six-level category of a reported AQI, in tenths
CategoryOfReported(predicted_aqi) ==
    IF predicted_aqi <= 500 THEN "Good"
    ELSE IF predicted_aqi <= 1000 THEN "Moderate"
    ELSE IF predicted_aqi <= 1500 THEN "Unhealthy for Sensitive Groups"
    ELSE IF predicted_aqi <= 2000 THEN "Unhealthy"
    ELSE IF predicted_aqi <= 3000 THEN "Very Unhealthy"
    ELSE "Hazardous"

\* C18: the aqi_level of every forecast point of every strategy is the
\* six-level category of the predicted_aqi that the point reports: Good up to
\* 50, Moderate up to 100, Unhealthy for Sensitive Groups up to 150,
\* Unhealthy up to 200, Very Unhealthy up to 300, Hazardous above.
C18_LevelOfReportedAqi ==
    Forecasted =>
        \A i \in 1..Len(forecast_data) :
            forecast_data[i].aqi_level =
                CategoryOfReported(forecast_data[i].predicted_aqi)

\* the order of the claim: COPD > asthma > heart disease > pregnancy >
\* elderly > children > diabetes > healthy
ClaimedPriority ==
    <<"copd", "asthma", "heart_disease", "pregnancy", "elderly", "children",
      "diabetes", "healthy">>

ClaimedRank(c) == CHOOSE i \in 1..Len(ClaimedPriority) : ClaimedPriority[i] = c

\* C19: for every non-empty list of conditions, _get_primary_health_condition
\* returns a member of the list, and the member that comes first in the order
\* COPD > asthma > heart disease > pregnancy > elderly > children > diabetes
\* > healthy: the result depends on the set of the listed conditions only,
\* not on their order or multiplicity.
C19_PrimaryIsFirstInOrder ==
    (pc = "get_primary_health_condition" /\ conditions # <<>>) =>
        LET listed == {conditions[j] : j \in 1..Len(conditions)}
        IN  /\ primary_condition \in listed
            /\ \A c \in listed : ClaimedRank(primary_condition) <= ClaimedRank(c)

\* asthma is the primary condition of a list that names children first and
\* twice
C19_Witness ==
    /\ pc = "get_primary_health_condition"
    /\ conditions = <<"children", "asthma", "children">>
    /\ primary_condition = "asthma"

RiskCalculated == pc = "calculate_personalized_risk"

\* the multipliers of the profile's primary condition for the pollutants of
\* the air data
ApplicableMultipliers ==
    LET table ==
            condition_sensitivity[get_primary_health_condition(health_profile.conditions)]
    IN  IF air_data.has_components
            THEN {table[p] : p \in air_data.components \cap DOMAIN table}
        ELSE {}

\* 1.2 / 0.9 for sensitivity, 1.15 for activity, 1.1 for exposure: in units
\* of 10^-4
ProfileMultipliers ==
    (IF health_profile.sensitivity_level = "high" THEN 12
     ELSE IF health_profile.sensitivity_level = "low" THEN 9
     ELSE 10)
    * (IF health_profile.activity_level = "active" THEN 115 ELSE 100)
    * (IF health_profile.outdoor_exposure = "high" THEN 11 ELSE 10)

LevelByThresholds(c, adjusted) ==
    LET thresholds == risk_thresholds[c]
    IN  IF adjusted >= thresholds.very_high * RiskScale THEN "very_high"
        ELSE IF adjusted >= thresholds.high * RiskScale THEN "high"
        ELSE IF adjusted >= thresholds.moderate * RiskScale THEN "moderate"
        ELSE "low"

\* C21: for every health profile and every AQI _calculate_personalized_risk
\* returns a level: EXTREME whenever adjusted_aqi >= 300, whatever the
\* primary condition, and below 300 the level of the primary condition's
\* thresholds (VERY_HIGH from very_high, HIGH from high, MODERATE from
\* moderate, LOW otherwise); a healthy profile with default settings at
\* AQI 40 is LOW.
C21_LevelByThresholds ==
    RiskCalculated =>
        LET primary == get_primary_health_condition(health_profile.conditions)
            r == personalized_risk
        IN  /\ r.raised = Absent
            /\ r.adjusted_aqi >= 300 * RiskScale => r.risk_level = "extreme"
            /\ (r.adjusted_aqi < 300 * RiskScale
                    /\ primary \in DOMAIN risk_thresholds) =>
                r.risk_level = LevelByThresholds(primary, r.adjusted_aqi)
            /\ (/\ primary = "healthy"
                /\ health_profile.sensitivity_level = "normal"
                /\ health_profile.activity_level = "sedentary"
                /\ health_profile.outdoor_exposure = "minimal"
                /\ risk_base_aqi = 400) => r.risk_level = "low"

EmergencyChecked == pc = "check_emergency_conditions"

\* the hours of the forecast given that classify EXTREME or have an adjusted
\* AQI above 300
ExtremeHours ==
    {i \in 1..Len(hour_forecast) :
        LET r == HourRisk(hour_forecast[i], health_profile)
        IN  r.risk_level = "extreme" \/ r.adjusted_aqi > 300 * RiskScale}

EmergencyAlerts ==
    {k \in 1..Len(alert_result.alerts) :
        alert_result.alerts[k].alert_type = "emergency"}

\* C22: _check_emergency_conditions returns an EMERGENCY alert if and only
\* if one of the first 6 forecast hours classifies EXTREME or has an
\* adjusted AQI above 300; hours 7 and later never cause one, and the scan
\* stops at the first such hour, so that at most one alert is returned.
C22_EmergencyIffFirstSixHours ==
    EmergencyChecked =>
        LET firstSix == {i \in ExtremeHours : i <= 6}
        IN  /\ EmergencyAlerts # {} <=> firstSix # {}
            /\ Cardinality(EmergencyAlerts) <= 1
            /\ \A k \in EmergencyAlerts :
                alert_result.alerts[k].hour = Least(firstSix)

WeatherIntegratedCall ==
    pc = "generate_forecast" /\ model_type = "weather_integrated"

\* the forecast hours that have a weather snapshot
WeatherHours ==
    {h \in 1..Len(unrounded_aqi) : h <= Len(baseline_data.weather_forecast)}

\* baseline * modifier * (1 + 0.005 * h), the modifier in units of 10^-7
WeatherProjection(modifier, h) ==
    Times(Times(Decimal(baseline_data.current_aqi, 2), modifier, 7),
          1000 + h * 5, 3)

\* the Weather Impact Modifier of WeatherService for the wind speed (m/s) and
\* humidity of a forecast snapshot, at a pressure (hPa) and a precipitation
\* (hundredths of mm/h), in units of 10^-7: 10^7 / ModScale = 125 / 2
ServiceModifier(weather_hour, pressure, precipitation) ==
    (DispersionFactor(weather_hour.wind_speed * 10)
        * PressureFactor(pressure, weather_hour.wind_speed * 10)
        * HumidityFactor(weather_hour.humidity)
        * PrecipitationFactor(precipitation) * 125) \div 2

\* C23 as stated: in the weather-integrated forecast the unrounded
\* prediction of every hour h with a weather snapshot is baseline * m *
\* (1 + 0.005 * h), m being the Weather Impact Modifier that
\* WeatherService._calculate_air_quality_modifiers computes with its wind,
\* pressure, humidity and precipitation bands (a forecast snapshot gives no
\* pressure and no precipitation rate: any value of the two is accepted).
C23_ModifierOfWeatherService ==
    WeatherIntegratedCall =>
        \A h \in WeatherHours :
            \E pressure \in {990, 1013, 1030}, precipitation \in {0, 50, 200} :
                unrounded_aqi[h] =
                    WeatherProjection(
                        ServiceModifier(baseline_data.weather_forecast[h],
                                        pressure, precipitation), h)

\* the bands of the forecasting service, in units of 10^-7
ForecastImpactBands(weather_hour) ==
    (CASE weather_hour.wind_speed > 8 -> 8
       [] weather_hour.wind_speed \in 5..8 -> 9
       [] weather_hour.wind_speed \in 2..4 -> 10
       [] weather_hour.wind_speed < 2 -> 13)
    * (CASE weather_hour.humidity > 80 -> 110
         [] weather_hour.humidity \in 40..80 -> 100
         [] weather_hour.humidity < 40 -> 95)
    * (CASE weather_hour.precipitation_chance > 70 -> 70
         [] weather_hour.precipitation_chance \in 31..70 -> 85
         [] weather_hour.precipitation_chance <= 30 -> 100)
    * (IF weather_hour.temperature > 30 * 60 THEN 105 ELSE 100)

\* C23, amended: the unrounded prediction of every hour h with a weather
\* snapshot is baseline * m * (1 + 0.005 * h), m being the modifier of the
\* forecasting service's own _calculate_weather_aqi_impact: wind speed > 8
\* -> 0.8, > 4 -> 0.9, < 2 -> 1.3; humidity > 80 -> 1.1, < 40 -> 0.95;
\* precipitation chance > 70 -> 0.7, > 30 -> 0.85; temperature > 30 -> 1.05;
\* pressure has no part in it.
C23_ModifierOfForecastingService ==
    WeatherIntegratedCall =>
        \A h \in WeatherHours :
            unrounded_aqi[h] =
                WeatherProjection(
                    ForecastImpactBands(baseline_data.weather_forecast[h]), h)

\* a hot hour with wind above 8 and a precipitation chance above 70
C23_Witness ==
    /\ WeatherIntegratedCall
    /\ \E h \in WeatherHours :
        LET weather_hour == baseline_data.weather_forecast[h]
        IN  /\ weather_hour.temperature > 30 * 60
            /\ weather_hour.wind_speed > 8
            /\ weather_hour.precipitation_chance > 70
            /\ unrounded_aqi[h] = WeatherProjection(8 * 100 * 70 * 105, h)

TemporalTrendCall == pc = "generate_forecast" /\ model_type = "temporal_trend"

\* baseline * diurnal_factor * weekly_factor * (1 + 0.002 * h) at forecast
\* hour h, the weekly factor being 1.05 from Monday to Friday and 0.95 on
\* Saturday and Sunday
TrendProjection(h) ==
    LET forecast_time == ForecastTime(forecast_request.now, h)
    IN  Times(Times(Times(Decimal(baseline_data.current_aqi, 2),
            10000000 + 2 * Sine(forecast_time.hour - 6), 7),
            IF forecast_time.weekday \in 0..4 THEN 105 ELSE 95, 2),
            1000 + h * 2, 3)

\* C24 as stated: in the temporal-trend forecast the unrounded prediction of
\* every hour h of 1..hours_ahead is baseline * diurnal_factor(hour of day)
\* * weekly_factor(day of week) * (1 + 0.002 * h), the weekly factor 1.05
\* from Monday to Friday and 0.95 at weekends, and no other factor is
\* applied (the product is written with two more decimals).
C24_NoOtherFactor ==
    TemporalTrendCall =>
        /\ DOMAIN unrounded_aqi = 1..forecast_request.hours_ahead
        /\ \A h \in 1..forecast_request.hours_ahead :
            unrounded_aqi[h] = Times(TrendProjection(h), 100, 2)

\* C24, amended: the unrounded prediction of every hour h of 1..hours_ahead
\* is baseline * diurnal_factor * weekly_factor * (1 + 0.002 * h) times the
\* variability 0.95 + 0.02 * (h mod 6).
C24_WithVariability ==
    TemporalTrendCall =>
        /\ DOMAIN unrounded_aqi = 1..forecast_request.hours_ahead
        /\ \A h \in 1..forecast_request.hours_ahead :
            unrounded_aqi[h] = Times(TrendProjection(h), 95 + 2 * (h % 6), 2)

\* a forecast that covers a weekend hour with the greatest variability, 1.05
C24_Witness ==
    /\ TemporalTrendCall
    /\ \E h \in 1..forecast_request.hours_ahead :
        /\ ForecastTime(forecast_request.now, h).weekday >= 5
        /\ h % 6 = 5
        /\ unrounded_aqi[h] = Times(TrendProjection(h), 105, 2)
    /\ \E h \in 1..forecast_request.hours_ahead :
        ForecastTime(forecast_request.now, h).weekday < 5

ForecastAlertsGenerated == pc = "generate_forecast_alerts"

\* low < moderate < high < very_high < extreme
RiskRank(level) ==
    CASE level = "low" -> 1
      [] level = "moderate" -> 2
      [] level = "high" -> 3
      [] level = "very_high" -> 4
      [] level = "extreme" -> 5

\* the levels of the hours of the next 24 that classified HIGH, VERY_HIGH or
\* EXTREME
HighRiskLevelsAhead ==
    {HourRisk(hour_forecast[i], health_profile).risk_level :
        i \in 1..Min(24, Len(hour_forecast))} \cap HighRiskLevels

\* C25: the FORECAST alert of _generate_forecast_alerts carries as
\* risk_level the highest level, in the order low < moderate < high <
\* very_high < extreme, among the hours of the next 24 that classified HIGH,
\* VERY_HIGH or EXTREME.
C25_HighestRiskLevel ==
    ForecastAlertsGenerated =>
        \A k \in 1..Len(alert_result.alerts) :
            LET alert == alert_result.alerts[k]
            IN  alert.alert_type = "forecast" =>
                    /\ alert.risk_level \in HighRiskLevelsAhead
                    /\ \A level \in HighRiskLevelsAhead :
                        RiskRank(level) <= RiskRank(alert.risk_level)

AtRiskDetermined == pc = "get_at_risk_conditions"

\* C26: risk classification is total over the health conditions: for every
\* non-empty list of conditions among the eight values of HealthCondition
\* and every AQI >= 0, _calculate_personalized_risk and
\* _get_at_risk_conditions return a value and do not raise.
C26_ClassificationTotal ==
    /\ (RiskCalculated /\ health_profile.conditions # <<>> /\ risk_base_aqi >= 0) =>
            /\ personalized_risk.raised = Absent
            /\ personalized_risk.risk_level
                    \in {"low", "moderate", "high", "very_high", "extreme"}
    /\ (AtRiskDetermined /\ conditions # <<>> /\ risk_base_aqi >= 0) =>
            at_risk.raised = Absent

PersonalizedAlertsGenerated == pc = "generate_personalized_alerts"

\* the forecast succeeded and one of its first 6 points predicts an AQI
\* above 300
ForecastAboveThreeHundred ==
    /\ forecast_result.success
    /\ \E i \in 1..Min(6, Len(forecast_result.forecast)) :
        forecast_result.forecast[i].predicted_aqi > 3000

\* C27: generate_personalized_alerts evaluates its alerts over the current
\* conditions and the forecast sequence that generate_comprehensive_forecast
\* returned: whenever that call succeeds and an hour among its first 6
\* forecast points has a predicted AQI above 300, the returned list of
\* alerts contains an EMERGENCY alert.
C27_EmergencyFromReturnedForecast ==
    (PersonalizedAlertsGenerated /\ ForecastAboveThreeHundred) =>
        \E k \in 1..Len(alert_result.alerts) :
            alert_result.alerts[k].alert_type = "emergency"

\* C28: in the three methods of ServiceManager every HTTP request a service's
\* task makes is issued while the client of that service is open, after
\* __aenter__ and before __aexit__ has begun to close it
C28_RequestsOnOpenClient ==
    \A r \in request_log : r.client = "open"

\* C29: however the calls of _rate_limit interleave at their sleeps, no more
\* than rate_limit requests pass the limiter between two consecutive resets of
\* rate_limit_window_start
C29_AtMostRateLimitPerWindow ==
    rate_limit # None => passed <= rate_limit

\* C30: after any calls of update_memory_cache, check_memory_cache and
\* clear_cache the cache holds at most 100 entries, and right after
\* update_memory_cache the entry just written is in the cache: what was
\* evicted was no newer than any entry that stayed
C30_BoundedAndWrittenKept ==
    /\ Len(cache) <= 100
    /\ cache_call.method = "update_memory_cache" =>
           /\ cache_call.key \in Keys(cache)
           /\ \A e \in cache_call.evicted :
                  \A i \in 1..Len(cache) : e.timestamp <= cache[i].timestamp

\* an update of a full cache has evicted an entry as new as the one written
C30_Witness ==
    /\ cache_call.method = "update_memory_cache"
    /\ Len(cache) = 100
    /\ cache_call.key \in Keys(cache)
    /\ \E e \in cache_call.evicted :
           e.timestamp = Entry(cache, cache_call.key).timestamp

\* an update of a full cache has evicted an entry that was not the first put
\* into the cache: the first had been written again since
C30_WitnessRefreshed ==
    /\ cache_call.method = "update_memory_cache"
    /\ \E e \in cache_call.evicted :
           /\ e.timestamp < cache[1].timestamp
           /\ e.key[1] > cache[1].key[1]

====
